---- MODULE Spec2Model ----
(***************************************************************************)
(* The two streaming decoders of ocr-parser (src/src/hocr.ts and           *)
(* src/src/alto.ts) as one state machine.                                  *)
(*                                                                         *)
(* The tokenizer is the environment: it yields a well-nested sequence of   *)
(* open-tag / text / close-tag events, one per step, and then the end of   *)
(* the stream.  A step of the machine is one `await eventIter.next()` of   *)
(* the handler that is currently running, together with everything that    *)
(* handler (and the handlers it returns to) does before the next await.    *)
(* The recursive handler calls are an explicit call stack, `frames`.       *)
(*                                                                         *)
(* Numbers: page sizes and reference sizes are drawn from sets in which    *)
(* every quotient the decoders form is a whole number, so the IEEE double  *)
(* arithmetic of the source is exact and is modelled by integers.          *)
(***************************************************************************)
EXTENDS Integers, Sequences, FiniteSets, TLC

\* Longest event stream explored.
MaxEvents == 7

\* The longest streams of the narrow families of documents: lines of words
\* ("lines", ALTO; "words", hOCR) and words with alternatives (hOCR).
MaxLineEvents == 10

MaxWordEvents == 11

MaxAltEvents == 13

\* The longest stream of the family of paragraphs of lines (hOCR).
MaxParEvents == 13

\* The longest stream of the family of elements with polygons.
MaxShapeEvents == 10

VARIABLES
  fmt,            \* which decoder runs: "hocr" | "alto"
  family,         \* the family of documents the tokenizer draws from
  hasRefs,        \* the caller passed a referenceSizes list
  sizeArr,        \* the entries of that list, by page index
  open,           \* tokenizer: the source elements currently open
  nOpen,          \* tokenizer: number of open tags yielded so far
  nEv,            \* tokenizer: number of events yielded so far
  eof,            \* tokenizer: the stream is exhausted
  lastEv,         \* the event consumed by the last step
  srcPages,       \* ids of the page elements of the source, in document order
  frames,         \* the decoder's call stack of handler invocations
  elementStack,   \* ctx.elementStack
  elems,          \* every model object made so far, by id
  scaleFactor,    \* ctx.scaleFactor
  sourceImageInformation,  \* ctx.sourceImageInformation (ALTO)
  pageIdx,        \* the page generator's pageIdx
  yielded,        \* the pages yielded so far, with the moment of the yield
  returns,        \* every handler return so far, with the moment of the return
  log,            \* the warnings logged so far
  parentOf,       \* parentOf[sid]: the element of the source that encloses
                  \* element sid (0: none)
  tagOf,          \* tagOf[sid]: the open tag of element sid of the source
  textOf,         \* textOf[sid]: the text nodes directly inside element sid
  status,         \* "running" | "done" | "failed"
  locked,         \* the lock of the byte stream's reader is held
  op,             \* what the caller does: "pages" (reads the page sequence
                  \* to its end), "page" (parseOcrPage) or "break" (leaves
                  \* the page sequence after its first page)
  initialized,    \* isInitialized(): the tokenizer's binary was loaded
  format,         \* the format tag the caller passed
  outcome         \* what the caller got

vars == <<fmt, family, hasRefs, sizeArr, open, nOpen, nEv, eof, lastEv,
          srcPages, frames, elementStack, elems, scaleFactor,
          sourceImageInformation, pageIdx, yielded, returns, log, parentOf,
          tagOf, textOf, status, locked, op, initialized, format, outcome>>

----------------------------------------------------------------------------
(* Sequences and text *)

Last(s) == s[Len(s)]

Front(s) == SubSeq(s, 1, Len(s) - 1)

Range(s) == {s[i] : i \in 1..Len(s)}

RECURSIVE Concat(_)
Concat(ss) == IF ss = <<>> THEN <<>> ELSE Head(ss) \o Concat(Tail(ss))

\* The strings of ss with sep between each two neighbours (Array.join).
RECURSIVE Join(_, _)
Join(ss, sep) ==
  IF ss = <<>> THEN <<>>
  ELSE IF Len(ss) = 1 THEN ss[1]
  ELSE ss[1] \o sep \o Join(Tail(ss), sep)

\* Characters of the model: a letter, a blank, the soft hyphen U+00AD.
SHY == "SHY"

IsSpace(c) == c = " "

\* String.prototype.trim
RECURSIVE TrimLeft(_)
TrimLeft(s) ==
  IF s # <<>> /\ IsSpace(Head(s)) THEN TrimLeft(Tail(s)) ELSE s

RECURSIVE TrimRight(_)
TrimRight(s) ==
  IF s # <<>> /\ IsSpace(Last(s)) THEN TrimRight(Front(s)) ELSE s

Trim(s) == TrimRight(TrimLeft(s))

\* value.replace(/\s+/g, ' ')
RECURSIVE CollapseSpace(_)
CollapseSpace(s) ==
  IF Len(s) < 2 THEN s
  ELSE IF IsSpace(s[1]) /\ IsSpace(s[2]) THEN CollapseSpace(Tail(s))
  ELSE <<s[1]>> \o CollapseSpace(Tail(s))

\* Math.round of the quotient n / d (d > 0): halves go up.
Round(n, d) == (2 * n + d) \div (2 * d)

----------------------------------------------------------------------------
(* The document model, src/src/model.ts *)

\* A child of an element: a model object (id > 0) or a string fragment.
ChildElem(id) == [id |-> id, str |-> <<>>]

ChildStr(s) == [id |-> 0, str |-> s]

\* The box of an element that has none (a paragraph without a bbox clause).
NoBox == <<>>

NoConfidence == <<0, 0>>

\* imageSource when it is undefined, and the ImageSource a
\* sourceImageInformation section yields.
NoImageSource == [set |-> FALSE, fileName |-> <<>>]

ImageSource(fileName) == [set |-> TRUE, fileName |-> fileName]

\* A model object.  box = <<x, y, width, height>>; a page uses only width
\* and height.  confidence is a fraction <<numerator, denominator>>.
MkElem(type, box, sid, page) ==
  [type |-> type, box |-> box, children |-> <<>>, text |-> <<>>,
   hyphenStart |-> FALSE, confidence |-> NoConfidence, choices |-> <<>>,
   hasChoices |-> FALSE, polygon |-> <<>>, features |-> <<>>,
   imageSource |-> NoImageSource, sid |-> sid, page |-> page, scale |-> 0,
   native |-> <<0, 0>>, refSize |-> <<0, 0>>]

\* A push that appends the child twice: what tree-shaped ownership excludes.
PushChildTwice(es, parent, child) ==
  [es EXCEPT ![parent].children = Append(Append(@, child), child)]

\* A push that appends the child to the first object ever made, the first
\* page, whichever parent is meant: what leaving yielded pages alone
\* excludes.
PushChildToFirstPage(es, parent, child) ==
  [es EXCEPT ![1].children = Append(@, child)]

\* parent.children.push(child)
PushChild(es, parent, child) ==
  [es EXCEPT ![parent].children = Append(@, child)]

ChildIds(e) == {e.children[i].id : i \in 1..Len(e.children)} \ {0}

\* get words() of a line
LineWords(es, l) ==
  SelectSeq(es[l].children, LAMBDA c : c.id > 0)

\* The flattened views of block and page (get blocks / paragraphs / lines /
\* words): the 'x' in c tests tell the kinds of children apart by the
\* getters they carry.
HasLines(e) == e.type \in {"paragraph", "block", "page"}

HasParagraphs(e) == e.type \in {"block", "page"}

HasWords(e) == e.type \in {"line", "paragraph", "block", "page"}

\* A lines view that lists the direct children only: what flattening
\* excludes.
LinesOfChildren(es, id) ==
  LET cs == SelectSeq(es[id].children,
                      LAMBDA c : c.id > 0 /\ es[c.id].type = "line")
  IN  [i \in 1..Len(cs) |-> cs[i].id]

RECURSIVE Lines(_, _)
Lines(es, id) ==
  LET e == es[id] IN
  IF e.type = "paragraph" THEN [i \in 1..Len(e.children) |-> e.children[i].id]
  ELSE Concat([i \in 1..Len(e.children) |->
         LET c == e.children[i].id IN
         IF c = 0 THEN <<>>
         ELSE IF HasLines(es[c]) THEN Lines(es, c)
         ELSE IF HasWords(es[c]) THEN <<c>>
         ELSE <<>>])

RECURSIVE Words(_, _)
Words(es, id) ==
  LET e == es[id] IN
  IF e.type = "line" THEN
    LET ws == LineWords(es, id) IN [i \in 1..Len(ws) |-> ws[i].id]
  ELSE IF e.type = "block" THEN
    Concat([i \in 1..Len(Lines(es, id)) |-> Words(es, Lines(es, id)[i])])
  ELSE
    Concat([i \in 1..Len(e.children) |->
      IF e.children[i].id = 0 \/ ~HasWords(es[e.children[i].id]) THEN <<>>
      ELSE Words(es, e.children[i].id)])

Blocks(es, id) ==
  LET cs == SelectSeq(es[id].children,
                      LAMBDA c : c.id > 0 /\ HasParagraphs(es[c.id])) IN
  [i \in 1..Len(cs) |-> cs[i].id]

Paragraphs(es, id) ==
  LET e == es[id] IN
  IF e.type = "block" THEN
    LET cs == SelectSeq(e.children, LAMBDA c : c.id > 0 /\ HasLines(es[c.id]))
    IN [i \in 1..Len(cs) |-> cs[i].id]
  ELSE
    Concat([i \in 1..Len(e.children) |->
      LET c == e.children[i].id IN
      IF c = 0 THEN <<>>
      ELSE IF HasParagraphs(es[c]) THEN
        LET cs == SelectSeq(es[c].children,
                            LAMBDA d : d.id > 0 /\ HasLines(es[d.id])) IN
        [j \in 1..Len(cs) |-> cs[j].id]
      ELSE IF HasLines(es[c]) THEN <<c>>
      ELSE <<>>])

\* The feature flags a page handler pushes once its loop is over.
PageFeatures(es, p) ==
  LET poly(ids) == \E i \in 1..Len(ids) : es[ids[i]].polygon # <<>>
      ws == Words(es, p)
  IN  (IF poly(Blocks(es, p)) THEN <<"POLYGONS">> ELSE <<>>)
   \o (IF poly(Paragraphs(es, p)) THEN <<"POLYGONS">> ELSE <<>>)
   \o (IF poly(Lines(es, p)) THEN <<"POLYGONS">> ELSE <<>>)
   \o (IF \E i \in 1..Len(ws) : es[ws[i]].hasChoices
         THEN <<"CHOICES">> ELSE <<>>)
   \o (IF \E i \in 1..Len(ws) : es[ws[i]].hyphenStart
         THEN <<"HYPHEN">> ELSE <<>>)
   \o (IF \E i \in 1..Len(ws) : es[ws[i]].confidence # NoConfidence
         THEN <<"CONFIDENCE">> ELSE <<>>)

\* A text getter that puts a space after every line but the last, also
\* after a line that ends hyphenated: what the hyphenation rule excludes.
TextSeparatedAlways(es, id) ==
  LET spelled(l) ==
        Concat([i \in 1..Len(es[l].children) |->
          IF es[l].children[i].id = 0 THEN es[l].children[i].str
          ELSE es[es[l].children[i].id].text])
      n == Len(es[id].children)
  IN  IF es[id].type = "word" THEN es[id].text
      ELSE IF es[id].type = "line" THEN spelled(id)
      ELSE Concat([i \in 1..n |->
             spelled(es[id].children[i].id)
               \o (IF i < n THEN <<" ">> ELSE <<>>)])

\* get text() of a line, a paragraph, a block and a page (and the text
\* field of a word).  A line joins its fragments and its words' texts; the
\* others put a separator after every child but the last, unless the child's
\* last word starts a hyphenation: ' ' after a line, '\n' after a block or
\* a paragraph.
RECURSIVE Text(_, _)
Text(es, id) ==
  LET e == es[id]
      n == Len(e.children)
  IN  IF e.type = "word" THEN e.text
      ELSE IF e.type = "line" THEN
        Concat([i \in 1..n |->
          IF e.children[i].id = 0 THEN e.children[i].str
          ELSE es[e.children[i].id].text])
      ELSE
        Concat([i \in 1..n |->
          LET c == e.children[i].id
              ws == Words(es, c)
              hyphenStart == ws # <<>> /\ es[Last(ws)].hyphenStart
          IN  Text(es, c)
                \o (IF i < n /\ ~hyphenStart
                      THEN IF es[c].type = "line" \/ e.type = "paragraph"
                             THEN <<" ">> ELSE <<"\n">>
                      ELSE <<>>)])

----------------------------------------------------------------------------
(* Events and tags (sax-wasm's [SaxEventType, Detail] pairs) *)

NoSize == <<0, 0>>

\* A tag with no attribute the decoders read.
Tag0 ==
  [name |-> "", cls |-> "", bbox |-> FALSE, poly |-> FALSE,
   wconf |-> NoConfidence, nlp |-> FALSE, size |-> NoSize, geom |-> "none",
   content |-> <<>>, hyp |-> FALSE, wc |-> NoConfidence, points |-> "none"]

\* An event: t is "open", "text" or "close"; a close tag carries the
\* attributes of its open tag and the text spans directly inside it.
Event(t, tag, sid, val, textNodes) ==
  [t |-> t, tag |-> tag, sid |-> sid, val |-> val, textNodes |-> textNodes]

NoEvent == Event("none", Tag0, 0, <<>>, <<>>)

\* The moment of a return or a yield: the event being consumed, or the end
\* of the stream.
Moment(e) == [t |-> e.t, sid |-> e.sid]

AtEof == [t |-> "eof", sid |-> 0]

\* tag.textNodes.map((t) => t.value.trim()).join('')
TrimmedText(textNodes) ==
  Concat([i \in 1..Len(textNodes) |-> Trim(textNodes[i])])

----------------------------------------------------------------------------
(* The decoder's state as one value, so that handlers are functions of it *)

Cur ==
  [frames |-> frames, elementStack |-> elementStack, elems |-> elems,
   scaleFactor |-> scaleFactor,
   sourceImageInformation |-> sourceImageInformation, pageIdx |-> pageIdx,
   yielded |-> yielded, returns |-> returns, log |-> log, status |-> status]

Commit(S) ==
  /\ frames' = S.frames
  /\ elementStack' = S.elementStack
  /\ elems' = S.elems
  /\ scaleFactor' = S.scaleFactor
  /\ sourceImageInformation' = S.sourceImageInformation
  /\ pageIdx' = S.pageIdx
  /\ yielded' = S.yielded
  /\ returns' = S.returns
  /\ log' = S.log
  /\ status' = S.status
  /\ UNCHANGED <<op, initialized, format, outcome>>

\* One invocation of a handler: its local variables.
Frame(fn, sid, el, tag) ==
  [fn |-> fn, openTags |-> 0, sid |-> sid, el |-> el, tag |-> tag,
   owner |-> "", wordText |-> <<>>, hasChoices |-> FALSE,
   wordChoices |-> <<>>, polygon |-> <<>>]

TopFrame(S) == S.frames[Len(S.frames)]

StackTop(S) == S.elementStack[Len(S.elementStack)]

\* An uncaught exception: the page generator rejects.
Throw(S, msg) ==
  [S EXCEPT !.status = "failed", !.log = Append(@, [msg |-> msg, sid |-> 0])]

\* console.warn
Warn(S, msg) == [S EXCEPT !.log = Append(@, [msg |-> msg, sid |-> 0])]

\* logWithPosition(msg, level, tag): the message with the place of the tag.
logWithPosition(S, msg, sid) ==
  [S EXCEPT !.log = Append(@, [msg |-> msg, sid |-> sid])]

NoteReturn(S, fn, sid, at) ==
  [S EXCEPT !.returns = Append(@, [fn |-> fn, sid |-> sid, at |-> at])]

\* makeBlock / makeLine / makeParagraph / makePage: a new object with an
\* empty children list; its id is its place in elems.
NewElem(S, e) == [S EXCEPT !.elems = Append(@, e)]

NewId(S) == Len(S.elems) + 1

\* The value of a POINTS attribute or of a poly clause, character by
\* character (every number of the documents explored has one digit): the
\* square (2,2), (4,2), (4,4), (2,4); a rectangle twice as high as wide, its numbers
\* delimited by blanks or, within a pair, by commas; a list of five
\* numbers.
PointsText(points) ==
  CASE points = "rect" ->
         <<"2", " ", "2", " ", "4", " ", "2", " ", "4", " ", "4", " ", "2",
           " ", "4">>
    [] points = "tall" ->
         <<"2", " ", "2", " ", "4", " ", "2", " ", "4", " ", "6", " ", "2",
           " ", "6">>
    [] points = "tallcommas" ->
         <<"2", ",", "2", " ", "4", ",", "2", " ", "4", ",", "6", " ", "2",
           ",", "6">>
    [] points = "odd" -> <<"2", " ", "2", " ", "4", " ", "2", " ", "4">>
    [] OTHER -> <<>>

\* The point lists of the "shapes" family.
PointLists == {"tall", "tallcommas", "odd"}

\* Not-a-number, which no coordinate of a document equals.
NaN == -999

\* The product and the difference of two numbers, in the arithmetic of
\* the code.
Times(a, b) == IF a = NaN \/ b = NaN THEN NaN ELSE a * b

Minus(a, b) == IF a = NaN \/ b = NaN THEN NaN ELSE a - b

\* String.prototype.split(sep)
RECURSIVE Split(_, _)
Split(str, sep) ==
  IF \A i \in 1..Len(str) : str[i] # sep THEN <<str>>
  ELSE LET k == CHOOSE i \in 1..Len(str) :
                  str[i] = sep /\ \A j \in 1..(i - 1) : str[j] # sep
       IN  <<SubSeq(str, 1, k - 1)>> \o Split(SubSeq(str, k + 1, Len(str)), sep)

\* Number.parseFloat: the number a string begins with.
ParseFloat(str) ==
  IF str = <<>> THEN NaN
  ELSE CASE str[1] = "2" -> 2
         [] str[1] = "4" -> 4
         [] str[1] = "6" -> 6
         [] OTHER -> NaN

\* The reduce of both polygon parsers: the numbers two by two; the last
\* point of an odd list has no y.
RECURSIVE PairUp(_)
PairUp(nums) ==
  IF nums = <<>> THEN <<>>
  ELSE IF Len(nums) = 1 THEN <<<<nums[1], NaN>>>>
  ELSE <<<<nums[1], nums[2]>>>> \o PairUp(Tail(Tail(nums)))

ScalePoints(pts, f) ==
  [i \in 1..Len(pts) |-> <<Times(pts[i][1], f), Times(pts[i][2], f)>>]

\* (x, y, width, height) of a scaled box given as corners.
BoxOfCorners(c, f) ==
  <<c[1] * f, c[2] * f, c[3] * f - c[1] * f, c[4] * f - c[2] * f>>

----------------------------------------------------------------------------
(* The hOCR decoder, src/src/hocr.ts *)

\* Raw corners (left, top, right, bottom) of the bbox clause of every
\* element below the page; a page's bbox is 0 0 width height.
HocrBBox == <<2, 2, 4, 4>>

getHocrType(tag) ==
  CASE tag.cls = "ocr_page" -> "page"
    [] tag.cls \in {"ocr_carea", "ocrx_block"} -> "block"
    [] tag.cls = "ocr_par" -> "paragraph"
    [] tag.cls \in {"ocr_line", "ocrx_line"} -> "line"
    [] tag.cls = "ocrx_word" -> "word"
    [] tag.cls = "ocrx_cinfo" -> "char"
    [] tag.cls = "alternatives" -> "alternatives"
    [] tag.cls = "alt" -> "alt"
    [] OTHER -> "null"

\* parsePolygon
parsePolygon(polyAttr, f) ==
  LET tokens == Split(polyAttr, " ")
      nums == [i \in 1..Len(tokens) |-> ParseFloat(tokens[i])]
  IN  ScalePoints(PairUp(nums), f)

\* parseHocrAttribs on a clause other than bbox: the first four of the
\* words that follow the key, joined by blanks.
HocrClauseValue(val) ==
  LET tokens == Split(val, " ")
      kept == SubSeq(tokens, 1, IF Len(tokens) < 4 THEN Len(tokens) ELSE 4)
  IN  Join(kept, <<" ">>)

\* parsePolygon of the poly clause, if the title has one.
HocrPolygon(tag, f) ==
  IF tag.poly THEN parsePolygon(HocrClauseValue(PointsText(tag.points)), f)
  ELSE <<>>

\* pageSize is <<width, height>> (entries 2 and 3 of the page's bbox).
determineScaleFactor(pageSize, referenceSize) ==
  IF pageSize[1] = referenceSize[1] /\ pageSize[2] = referenceSize[2]
  THEN 1
  ELSE referenceSize[1] \div pageSize[1]

\* The condition of determineScaleFactor's console.warn.
ScaleFactorsDiffer(pageSize, referenceSize) ==
  /\ ~(pageSize[1] = referenceSize[1] /\ pageSize[2] = referenceSize[2])
  /\ \/ Round(referenceSize[2] * pageSize[1], pageSize[2]) # referenceSize[1]
     \/ Round(referenceSize[1] * pageSize[2], pageSize[1]) # referenceSize[2]

\* Allowed types that let a word stand directly in a page: what the
\* containment of kinds excludes.
AllowedTypesWithWords(owner) ==
  CASE owner = "page" -> {"block", "paragraph", "line", "word"}
    [] owner = "block" -> {"paragraph", "line"}
    [] owner = "paragraph" -> {"line"}
    [] owner = "line" -> {"word", "text"}

\* The allowedTypes each handler passes to handleChildren.
AllowedTypes(owner) ==
  CASE owner = "page" -> {"block", "paragraph", "line"}
    [] owner = "block" -> {"paragraph", "line"}
    [] owner = "paragraph" -> {"line"}
    [] owner = "line" -> {"word", "text"}

\* Push a new handler invocation that reads the children of element el.
EnterChildren(S, owner, e, el) ==
  [S EXCEPT !.elementStack = Append(@, el),
            !.frames = Append(@, [Frame("handleChildren", e.sid, el, e.tag)
                                    EXCEPT !.owner = owner])]

\* handlePage up to its call of handleChildren.
HocrHandlePage(S, e, referenceSize) ==
  LET sf == IF referenceSize # NoSize
              THEN determineScaleFactor(e.tag.size, referenceSize) ELSE 1
      W == IF referenceSize # NoSize
                /\ ScaleFactorsDiffer(e.tag.size, referenceSize)
             THEN Warn(S, "Differing scale factors") ELSE S
      page == [MkElem("page", <<0, 0, e.tag.size[1] * sf, e.tag.size[2] * sf>>,
                      e.sid, 0)
                 EXCEPT !.scale = sf, !.native = e.tag.size,
                        !.refSize = referenceSize]
      S1 == [NewElem(W, page) EXCEPT !.scaleFactor = sf]
  IN  EnterChildren(S1, "page", e, NewId(W))

\* handleBlock up to its call of handleChildren.
HocrHandleBlock(S, e) ==
  IF ~e.tag.bbox THEN Throw(S, "TypeError: bbox is undefined")
  ELSE
    LET block == [MkElem("block", BoxOfCorners(HocrBBox, S.scaleFactor),
                         e.sid, S.elementStack[1])
                    EXCEPT !.polygon = HocrPolygon(e.tag, S.scaleFactor),
                           !.scale = S.scaleFactor]
        id == NewId(S)
        S1 == [NewElem(S, block) EXCEPT
                 !.elems = PushChild(@, StackTop(S), ChildElem(id))]
    IN  EnterChildren(S1, "block", e, id)

\* handleParagraph up to its call of handleChildren.
HocrHandleParagraph(S, e) ==
  LET par == [MkElem("paragraph",
                     IF e.tag.bbox THEN BoxOfCorners(HocrBBox, S.scaleFactor)
                     ELSE NoBox,
                     e.sid, S.elementStack[1])
                EXCEPT !.polygon = HocrPolygon(e.tag, S.scaleFactor),
                           !.scale = S.scaleFactor]
      id == NewId(S)
      S1 == [NewElem(S, par) EXCEPT
               !.elems = PushChild(@, StackTop(S), ChildElem(id))]
  IN  EnterChildren(S1, "paragraph", e, id)

\* handleLine up to its call of handleChildren; without a bbox clause it
\* returns at once, to the `openTags--` of the caller.
HocrHandleLine(S, e) ==
  IF ~e.tag.bbox THEN
    LET W == logWithPosition(S, "Missing bbox attribute on line element",
                             e.sid)
        S1 == NoteReturn(W, "handleLine", e.sid, Moment(e))
    IN  [S1 EXCEPT !.frames[Len(S.frames)].openTags = @ - 1]
  ELSE
    LET line == [MkElem("line", BoxOfCorners(HocrBBox, S.scaleFactor),
                        e.sid, S.elementStack[1])
                   EXCEPT !.polygon = HocrPolygon(e.tag, S.scaleFactor),
                           !.scale = S.scaleFactor]
        id == NewId(S)
        S1 == [NewElem(S, line) EXCEPT
                 !.elems = PushChild(@, StackTop(S), ChildElem(id))]
    IN  EnterChildren(S1, "line", e, id)

\* handleWord up to its loop.
HocrEnterWord(S, e) ==
  IF ~e.tag.bbox THEN Throw(S, "TypeError: bbox is undefined")
  ELSE [S EXCEPT !.frames = Append(@, Frame("handleWord", e.sid, 0, e.tag))]

\* A text branch that keeps every text node of a line: what the whitespace
\* rule of a line excludes.
HocrLineTextKeepsAll(S, e) ==
  [S EXCEPT !.elems = PushChild(@, StackTop(S), ChildStr(CollapseSpace(e.val)))]

\* The text branch of handleChildren: a text node directly inside a line.
HocrLineText(S, e) ==
  LET parentElem == StackTop(S)
      txt == CollapseSpace(e.val)
      whitespaceOnly == txt = <<" ">>
      cs == S.elems[parentElem].children
  IN  IF S.elems[parentElem].type = "line"
         /\ (Len(cs) > 0 \/ ~whitespaceOnly)
         /\ ~(cs # <<>> /\ Last(cs) = ChildStr(<<" ">>) /\ whitespaceOnly)
      THEN [S EXCEPT !.elems = PushChild(@, parentElem, ChildStr(txt))]
      ELSE S

\* A line end that divides every confidence of the document once a word of
\* the line exceeds 1: what per-line normalization excludes.
HocrFinishLineGlobally(es, l) ==
  LET cs == es[l].children
      stripped == IF cs # <<>> /\ Last(cs) = ChildStr(<<" ">>)
                    THEN Front(cs) ELSE cs
      es1 == [es EXCEPT ![l].children = stripped]
      ws == LineWords(es1, l)
  IN  IF \E i \in 1..Len(ws) :
           es1[ws[i].id].confidence[1] > es1[ws[i].id].confidence[2]
      THEN [w \in DOMAIN es1 |->
              IF es1[w].confidence # NoConfidence
              THEN [es1[w] EXCEPT !.confidence = <<@[1], @[2] * 100>>]
              ELSE es1[w]]
      ELSE es1

\* What handleLine does after handleChildren returned.
HocrFinishLine(es, l) ==
  LET cs == es[l].children
      stripped == IF cs # <<>> /\ Last(cs) = ChildStr(<<" ">>)
                    THEN Front(cs) ELSE cs
      es1 == [es EXCEPT ![l].children = stripped]
      ws == LineWords(es1, l)
      isSet(w) == es1[w].confidence # NoConfidence
      needsNormalization ==
        \E i \in 1..Len(ws) :
          /\ isSet(ws[i].id)
          /\ es1[ws[i].id].confidence[1] > es1[ws[i].id].confidence[2]
  IN  IF needsNormalization
      THEN [w \in DOMAIN es1 |->
              IF w \in {ws[i].id : i \in 1..Len(ws)} /\ isSet(w)
              THEN [es1[w] EXCEPT !.confidence = <<@[1], @[2] * 100>>]
              ELSE es1[w]]
      ELSE es1

\* A handleChildren whose loop does not end with the stream: what
\* termination excludes.
HocrStayInChildren(S, at) == S

\* handleChildren's loop is over: pop the element stack, finish the handler
\* that called it and return to that handler's caller, which is either the
\* `openTags--` of an enclosing handleChildren or the `yield` of
\* parseHocrPages.
HocrLeaveChildren(S, at) ==
  LET f == TopFrame(S)
      S1 == [S EXCEPT !.elementStack = Front(@), !.frames = Front(@)]
      S2 == CASE f.owner = "line" ->
                   [S1 EXCEPT !.elems = HocrFinishLine(@, f.el)]
              [] f.owner = "page" ->
                   [S1 EXCEPT !.elems[f.el].features =
                                 @ \o PageFeatures(S1.elems, f.el)]
              [] OTHER -> S1
      S3 == NoteReturn(S2, f.owner, f.sid, at)
  IN  IF f.owner = "page"
      THEN [S3 EXCEPT !.yielded = Append(@, [page |-> f.el, at |-> at])]
      ELSE [S3 EXCEPT !.frames[Len(S3.frames)].openTags = @ - 1]

\* One turn of handleChildren's loop.
handleChildren(S, e) ==
  LET f == TopFrame(S)
      n == Len(S.frames)
      allowedTypes == AllowedTypes(f.owner)
      hocrType == getHocrType(e.tag)
  IN  CASE e.t = "text" ->
             IF "text" \in allowedTypes THEN HocrLineText(S, e) ELSE S
        [] e.t = "close" ->
             IF f.openTags - 1 >= 0
             THEN [S EXCEPT !.frames[n].openTags = @ - 1]
             ELSE HocrLeaveChildren(S, Moment(e))
        [] e.t = "open" ->
             LET S1 == [S EXCEPT !.frames[n].openTags = @ + 1] IN
             IF hocrType = "null" THEN S1
             ELSE IF hocrType \notin allowedTypes
               THEN logWithPosition(S1, "Unexpected hOCR element type", e.sid)
             ELSE CASE hocrType = "block" -> HocrHandleBlock(S1, e)
                    [] hocrType = "paragraph" -> HocrHandleParagraph(S1, e)
                    [] hocrType = "line" -> HocrHandleLine(S1, e)
                    [] hocrType = "word" -> HocrEnterWord(S1, e)

\* resolveXmlEntities, on the model's characters: "&amp;" stands for a
\* character reference and resolves to the character it names.
resolveXmlEntities(str) ==
  [i \in 1..Len(str) |-> IF str[i] = "&amp;" THEN "&" ELSE str[i]]

IncludesAmp(str) == \E i \in 1..Len(str) : str[i] \in {"&", "&amp;"}

\* An end of handleWord that appends the word whatever its text: what
\* dropping empty words excludes.
HocrFinishWordKeepsEmpty(S, f) ==
  LET word == [MkElem("word", BoxOfCorners(HocrBBox, S.scaleFactor),
                      f.sid, S.elementStack[1])
                 EXCEPT !.text = f.wordText, !.scale = S.scaleFactor]
      id == NewId(S)
  IN  [NewElem(S, word) EXCEPT
         !.elems = PushChild(@, StackTop(S), ChildElem(id))]

\* An end of handleWord that leaves a trailing soft hyphen in the text and
\* the flag unset: what the hyphenation rule excludes.
HocrFinishWordKeepsHyphen(S, f) ==
  IF Len(f.wordText) = 0
  THEN logWithPosition(S, "Word element has no text, skipping.", f.sid)
  ELSE
    LET word == [MkElem("word", BoxOfCorners(HocrBBox, S.scaleFactor),
                        f.sid, S.elementStack[1])
                   EXCEPT !.text = f.wordText, !.scale = S.scaleFactor]
        id == NewId(S)
    IN  [NewElem(S, word) EXCEPT
           !.elems = PushChild(@, StackTop(S), ChildElem(id))]

\* handleWord after its loop: drop the word or append it to the line on top
\* of the element stack.
HocrFinishWord(S, f) ==
  IF Len(f.wordText) = 0
  THEN logWithPosition(S, "Word element has no text, skipping.", f.sid)
  ELSE
    LET hyphenStart == Last(f.wordText) = SHY
        text1 == IF hyphenStart THEN Front(f.wordText) ELSE f.wordText
        text2 == IF IncludesAmp(text1) THEN resolveXmlEntities(text1)
                 ELSE text1
        word == [MkElem("word", BoxOfCorners(HocrBBox, S.scaleFactor),
                        f.sid, S.elementStack[1])
                   EXCEPT !.text = text2,
                          !.hyphenStart = hyphenStart,
                          !.hasChoices = Len(f.wordChoices) > 0,
                          !.choices = f.wordChoices,
                          !.polygon = HocrPolygon(f.tag, S.scaleFactor),
                          !.confidence = f.tag.wconf,
                          !.scale = S.scaleFactor]
        id == NewId(S)
    IN  [NewElem(S, word) EXCEPT
           !.elems = PushChild(@, StackTop(S), ChildElem(id))]

\* A return of handleWord that the handleChildren above it does not count
\* down: what consuming exactly one's own region excludes.
HocrLeaveWordUncounted(S, at) ==
  LET f == TopFrame(S)
      S1 == HocrFinishWord([S EXCEPT !.frames = Front(@)], f)
  IN  NoteReturn(S1, "word", f.sid, at)

\* handleWord returns to the `openTags--` of the handleChildren above it.
HocrLeaveWord(S, at) ==
  LET f == TopFrame(S)
      S1 == HocrFinishWord([S EXCEPT !.frames = Front(@)], f)
      S2 == NoteReturn(S1, "word", f.sid, at)
  IN  [S2 EXCEPT !.frames[Len(S2.frames)].openTags = @ - 1]

\* A choice that carries a probability whether or not its del span has an
\* nlp attribute: what the optional probability excludes.
HocrChoiceAlwaysProbable(tag, textNodes) ==
  [text |-> LET t == TrimmedText(textNodes) IN
            IF IncludesAmp(t) THEN resolveXmlEntities(t) ELSE t,
   hasProbability |-> TRUE]

\* The WordChoice made at the close of a del span; hasProbability: the
\* choice has a probability field (exp(-nlp)).
HocrChoice(tag, textNodes) ==
  [text |-> LET t == TrimmedText(textNodes) IN
            IF IncludesAmp(t) THEN resolveXmlEntities(t) ELSE t,
   hasProbability |-> tag.nlp]

\* One turn of handleWord's loop.
HocrHandleWord(S, e) ==
  LET f == TopFrame(S)
      n == Len(S.frames)
  IN  CASE e.t = "open" ->
             [S EXCEPT !.frames[n].openTags = @ + 1,
                       !.frames[n].hasChoices =
                          IF e.tag.name = "span"
                             /\ getHocrType(e.tag) = "alternatives"
                          THEN TRUE ELSE @,
                       !.frames[n].wordChoices =
                          IF e.tag.name = "span"
                             /\ getHocrType(e.tag) = "alternatives"
                          THEN <<>> ELSE @]
        [] e.t = "close" ->
             LET S1 ==
                   IF f.hasChoices /\ e.tag.name = "ins"
                   THEN [S EXCEPT !.frames[n].wordText =
                                     TrimmedText(e.textNodes)]
                   ELSE IF f.hasChoices /\ e.tag.name = "del"
                   THEN [S EXCEPT !.frames[n].wordChoices =
                           Append(@, HocrChoice(e.tag, e.textNodes))]
                   ELSE S
             IN  IF f.openTags - 1 >= 0
                 THEN [S1 EXCEPT !.frames[n].openTags = @ - 1]
                 ELSE HocrLeaveWord(S1, Moment(e))
        [] e.t = "text" ->
             IF ~f.hasChoices
             THEN [S EXCEPT !.frames[n].wordText = @ \o Trim(e.val)]
             ELSE S

\* referenceSizes?.(pageIdx, attribs) ?? undefined, the list form being
\* adapted to `(idx) => sizeArr[idx] ?? null`.
ReferenceSize(has, arr, idx) ==
  IF has /\ idx + 1 <= Len(arr) THEN arr[idx + 1] ELSE NoSize

\* One turn of parseHocrPages' loop.  (It never advances pageIdx.)
parseHocrPages(S, e, has, arr) ==
  IF e.t # "open" \/ e.tag.name # "div" \/ getHocrType(e.tag) # "page"
  THEN S
  ELSE HocrHandlePage(S, e, ReferenceSize(has, arr, S.pageIdx))

----------------------------------------------------------------------------
(* The ALTO decoder, src/src/alto.ts *)

\* getCoordinates: the numeric attributes HPOS, VPOS, WIDTH, HEIGHT a tag
\* carries.  geom "none": none of them; "zero": HPOS = VPOS = 0; "pos": all
\* four positive, a square; "tall": all four positive, twice as high as
\* wide.
getCoordinates(tag) ==
  CASE tag.geom = "pos" -> [x |-> 2, y |-> 2, width |-> 2, height |-> 2]
    [] tag.geom = "tall" -> [x |-> 2, y |-> 2, width |-> 2, height |-> 4]
    [] tag.geom = "zero" -> [x |-> 0, y |-> 0, width |-> 2, height |-> 2]
    [] OTHER -> [k \in {} |-> 0]

\* dims.k ? dims.k * ctx.scaleFactor : -1
ScaledOrDeferred(dims, k, f) ==
  IF k \in DOMAIN dims /\ dims[k] # 0 THEN dims[k] * f ELSE -1

AltoBox(tag, f) ==
  LET dims == getCoordinates(tag) IN
  <<ScaledOrDeferred(dims, "x", f), ScaledOrDeferred(dims, "y", f),
    ScaledOrDeferred(dims, "width", f), ScaledOrDeferred(dims, "height", f)>>

Min(S) == CHOOSE m \in S : \A o \in S : m <= o

Max(S) == CHOOSE m \in S : \A o \in S : m >= o

\* Math.min and Math.max
MathMin(S) == IF NaN \in S THEN NaN ELSE Min(S)

MathMax(S) == IF NaN \in S THEN NaN ELSE Max(S)

\* The box handleShape derives from a polygon.
BoxOfPolygon(polygon) ==
  LET xs == {polygon[i][1] : i \in 1..Len(polygon)}
      ys == {polygon[i][2] : i \in 1..Len(polygon)}
  IN  <<MathMin(xs), MathMin(ys), Minus(MathMax(xs), MathMin(xs)),
        Minus(MathMax(ys), MathMin(ys))>>

\* The polygon handleShape reads from the POINTS attribute: the blank-
\* separated pieces, each split at its commas, the first part of each
\* piece parsed as a number, the numbers paired and scaled.
AltoPolygon(points, f) ==
  LET pieces == Split(points, " ")
      nums == [i \in 1..Len(pieces) |->
                 ParseFloat(Head(Split(pieces[i], ",")))]
  IN  ScalePoints(PairUp(nums), f)

AltoEnter(S, fn, e, el) ==
  [S EXCEPT !.frames = Append(@, Frame(fn, e.sid, el, e.tag))]

\* handlePage up to its loop.
AltoHandlePage(S, e, referenceSize) ==
  LET dims == e.tag.size IN
  IF dims[1] = 0 \/ dims[2] = 0
  THEN Throw(S, "Could not get Page dimensions")
  ELSE
    LET scaleFactorX == IF referenceSize # NoSize
                          THEN referenceSize[1] \div dims[2] ELSE 1
        \* scaleFactorX !== scaleFactorY, cross-multiplied
        differ == /\ referenceSize # NoSize
                  /\ referenceSize[1] * dims[1] # referenceSize[2] * dims[2]
        W == IF differ THEN Warn(S, "Scale factors differ") ELSE S
        page == [MkElem("page",
                        <<0, 0, dims[1] * scaleFactorX,
                          dims[2] * scaleFactorX>>, e.sid, 0)
                   EXCEPT !.scale = scaleFactorX, !.native = dims,
                          !.refSize = referenceSize]
        id == NewId(W)
        S1 == [NewElem(W, page) EXCEPT !.scaleFactor = scaleFactorX,
                                       !.elementStack = Append(@, id)]
    IN  AltoEnter(S1, "handlePage", e, id)

\* handleBlock up to its loop.
AltoHandleBlock(S, e) ==
  LET block == [MkElem("block", AltoBox(e.tag, S.scaleFactor), e.sid,
                       S.elementStack[1])
                  EXCEPT !.scale = S.scaleFactor]
      id == NewId(S)
      S1 == [NewElem(S, block) EXCEPT
               !.elems = PushChild(@, StackTop(S), ChildElem(id)),
               !.elementStack = Append(@, id)]
  IN  AltoEnter(S1, "handleBlock", e, id)

\* handleLine up to its loop.
AltoHandleLine(S, e) ==
  LET line == [MkElem("line", AltoBox(e.tag, S.scaleFactor), e.sid,
                      S.elementStack[1])
                 EXCEPT !.scale = S.scaleFactor]
      id == NewId(S)
      S1 == [NewElem(S, line) EXCEPT
               !.elems = PushChild(@, StackTop(S), ChildElem(id)),
               !.elementStack = Append(@, id)]
  IN  AltoEnter(S1, "handleLine", e, id)

\* handleWord up to its loop: the word is made and pushed on the element
\* stack; it joins its line only when the loop is over.
AltoEnterWord(S, e) ==
  IF e.tag.content = <<>> THEN Throw(S, "Could not get String text")
  ELSE
    LET text == IF IncludesAmp(e.tag.content)
                  THEN resolveXmlEntities(e.tag.content) ELSE e.tag.content
        word == [MkElem("word", AltoBox(e.tag, S.scaleFactor), e.sid,
                        S.elementStack[1])
                   EXCEPT !.text = text, !.hyphenStart = e.tag.hyp,
                          !.confidence = e.tag.wc, !.scale = S.scaleFactor]
        id == NewId(S)
        S1 == [NewElem(S, word) EXCEPT !.elementStack = Append(@, id)]
    IN  AltoEnter(S1, "handleWord", e, id)

\* The counting of handlePage's and handleBlock's loops: a close tag is
\* counted down and, falling through, up again.
AltoCountPageOrBlock(S, e) ==
  [S EXCEPT !.frames[Len(S.frames)].openTags =
              IF e.t = "close" THEN (@ - 1) + 1 ELSE @ + 1]

\* One turn of handlePage's loop.
AltoPageLoop(S, e) ==
  IF e.t = "text" THEN S
  ELSE LET S1 == AltoCountPageOrBlock(S, e) IN
       IF e.tag.name = "TextBlock" THEN AltoHandleBlock(S1, e) ELSE S1

\* One turn of handleBlock's loop.
AltoBlockLoop(S, e) ==
  IF e.t = "text" THEN S
  ELSE LET S1 == AltoCountPageOrBlock(S, e) IN
       IF e.tag.name = "TextLine" THEN AltoHandleLine(S1, e)
       ELSE IF e.tag.name = "Shape" THEN AltoEnter(S1, "handleShape", e, 0)
       ELSE S1

\* handlePage after its loop, and the `yield page; pageIdx++` of
\* parseAltoPages it returns to.
AltoLeavePage(S, at) ==
  LET f == TopFrame(S)
      S1 == [S EXCEPT !.elementStack = Front(@), !.frames = Front(@)]
      S2 == [S1 EXCEPT !.elems[f.el].features =
                          @ \o PageFeatures(S1.elems, f.el)]
      S3 == IF S2.sourceImageInformation.set
            THEN [S2 EXCEPT
                    !.elems[f.el].imageSource = S2.sourceImageInformation,
                    !.sourceImageInformation = NoImageSource]
            ELSE S2
      S4 == NoteReturn(S3, "page", f.sid, at)
  IN  [S4 EXCEPT !.yielded = Append(@, [page |-> f.el, at |-> at]),
                 !.pageIdx = @ + 1]

\* handleBlock after its loop; handlePage does nothing on its return.
AltoLeaveBlock(S, at) ==
  LET f == TopFrame(S)
      S1 == [S EXCEPT !.elementStack = Front(@), !.frames = Front(@)]
  IN  NoteReturn(S1, "block", f.sid, at)

\* The spaces handleLine adds to a line that holds no ' ' fragment.
AltoSynthesizeSpaces(cs) ==
  IF \E i \in 1..Len(cs) : cs[i] = ChildStr(<<" ">>) THEN cs
  ELSE Concat([i \in 1..Len(cs) |->
         IF i = Len(cs) THEN <<cs[i]>> ELSE <<cs[i], ChildStr(<<" ">>)>>])

\* A handleLine that returns without popping its line: what matched pushes
\* and pops exclude.
AltoLeaveLineNoPop(S, at) ==
  LET f == TopFrame(S)
      S1 == [S EXCEPT !.frames = Front(@),
                      !.elems[f.el].children = AltoSynthesizeSpaces(@)]
  IN  NoteReturn(S1, "line", f.sid, at)

\* handleLine after its loop; handleBlock does nothing on its return.
AltoLeaveLine(S, at) ==
  LET f == TopFrame(S)
      S1 == [S EXCEPT !.elementStack = Front(@), !.frames = Front(@),
                      !.elems[f.el].children = AltoSynthesizeSpaces(@)]
  IN  NoteReturn(S1, "line", f.sid, at)

\* One turn of handleLine's loop.
AltoLineLoop(S, e) ==
  LET f == TopFrame(S)
      n == Len(S.frames)
  IN  CASE e.t = "text" -> S
        [] e.t = "close" ->
             IF f.openTags - 1 >= 0
             THEN [S EXCEPT !.frames[n].openTags = @ - 1]
             ELSE AltoLeaveLine(S, Moment(e))
        [] e.t = "open" ->
             LET S1 == [S EXCEPT !.frames[n].openTags = @ + 1] IN
             CASE e.tag.name = "String" -> AltoEnterWord(S1, e)
               [] e.tag.name = "SP" ->
                    [S1 EXCEPT !.elems =
                                  PushChild(@, f.el, ChildStr(<<" ">>))]
               [] e.tag.name = "Shape" -> AltoEnter(S1, "handleShape", e, 0)
               [] OTHER -> S1

\* handleWord after its loop: the word joins the line below it on the
\* element stack, and handleLine counts its tag down.
AltoLeaveWord(S, at) ==
  LET f == TopFrame(S)
      line == IF Len(S.elementStack) >= 2
                THEN S.elementStack[Len(S.elementStack) - 1]
                ELSE S.elementStack[1]
      S1 == [S EXCEPT !.elems = PushChild(@, line, ChildElem(f.el)),
                      !.elementStack = Front(@),
                      !.frames = Front(@)]
      S2 == NoteReturn(S1, "word", f.sid, at)
  IN  [S2 EXCEPT !.frames[Len(S2.frames)].openTags = @ - 1]

\* One turn of handleWord's loop.
AltoWordLoop(S, e) ==
  LET f == TopFrame(S)
      n == Len(S.frames)
  IN  CASE e.t = "text" -> S
        [] e.t = "close" ->
             LET S1 ==
                   IF e.tag.name = "ALTERNATIVE"
                   THEN [S EXCEPT
                           !.elems[f.el].hasChoices = TRUE,
                           !.elems[f.el].choices =
                              Append(@,
                                [text |->
                                   LET t == TrimmedText(e.textNodes) IN
                                   IF IncludesAmp(t)
                                   THEN resolveXmlEntities(t) ELSE t,
                                 hasProbability |-> FALSE])]
                   ELSE S
             IN  IF f.openTags - 1 >= 0
                 THEN [S1 EXCEPT !.frames[n].openTags = @ - 1]
                 ELSE AltoLeaveWord(S1, Moment(e))
        [] e.t = "open" ->
             LET S1 == [S EXCEPT !.frames[n].openTags = @ + 1] IN
             IF e.tag.name = "Shape" THEN AltoEnter(S1, "handleShape", e, 0)
             ELSE S1

\* handleShape after its loop: resolve a deferred box of the element on top
\* of the element stack, then return the polygon to the caller, which
\* stores it (and, in handleWord only, counts the Shape tag down).
AltoLeaveShape(S, at) ==
  LET f == TopFrame(S)
      parent == StackTop(S)
      box == S.elems[parent].box
      deferred == \E i \in 1..4 : box[i] # NaN /\ box[i] < 0
      S1 == [S EXCEPT !.frames = Front(@)]
      caller == TopFrame(S1)
  IN  IF deferred /\ f.polygon = <<>>
      THEN Throw(S, "Could not get dimensions, no associated Shape")
      ELSE
        LET S2 == IF deferred
                    THEN [S1 EXCEPT !.elems[parent].box =
                                       BoxOfPolygon(f.polygon)]
                    ELSE S1
            S3 == IF f.polygon # <<>>
                    THEN [S2 EXCEPT !.elems[caller.el].polygon = f.polygon]
                    ELSE S2
            S4 == NoteReturn(S3, "shape", f.sid, at)
        IN  IF caller.fn = "handleWord"
            THEN [S4 EXCEPT !.frames[Len(S4.frames)].openTags = @ - 1]
            ELSE S4

\* One turn of handleShape's loop.
AltoShapeLoop(S, e) ==
  LET f == TopFrame(S)
      n == Len(S.frames)
  IN  CASE e.t = "text" -> S
        [] e.t = "close" ->
             IF f.openTags - 1 >= 0
             THEN [S EXCEPT !.frames[n].openTags = @ - 1]
             ELSE AltoLeaveShape(S, Moment(e))
        [] e.t = "open" ->
             LET S1 == [S EXCEPT !.frames[n].openTags = @ + 1] IN
             IF e.tag.name # "Polygon" THEN S1
             ELSE IF e.tag.points = "none"
               THEN logWithPosition(S1, "<Polygon> without POINTS attribute",
                                    e.sid)
             ELSE [S1 EXCEPT !.frames[n].polygon =
                                AltoPolygon(PointsText(e.tag.points),
                                            S.scaleFactor)]

\* One turn of handleSourceImageInformation's loop.
AltoSourceImageLoop(S, e) ==
  LET f == TopFrame(S)
      n == Len(S.frames)
  IN  CASE e.t = "text" -> S
        [] e.t = "close" ->
             LET S1 == IF e.tag.name = "fileName"
                         THEN [S EXCEPT !.sourceImageInformation.fileName =
                                          Concat(e.textNodes)]
                         ELSE S
             IN  IF f.openTags - 1 >= 0
                 THEN [S1 EXCEPT !.frames[n].openTags = @ - 1]
                 ELSE NoteReturn([S1 EXCEPT !.frames = Front(@)],
                                 "sourceImageInformation", f.sid, Moment(e))
        [] e.t = "open" -> [S EXCEPT !.frames[n].openTags = @ + 1]

\* A unit test that ignores whether the caller gave reference sizes: what
\* the exemption of callers with reference sizes excludes.
RequiresReferenceSizeAlways(unit, has) == unit # <<"pixel">>

\* unit !== 'pixel' && !referenceSizes
RequiresReferenceSize(unit, has) == unit # <<"pixel">> /\ ~has

\* One turn of parseAltoPages' loop.
parseAltoPages(S, e, has, arr) ==
  IF /\ e.t = "close"
     /\ e.tag.name = "MeasurementUnit"
     /\ e.textNodes = <<>>
  THEN Throw(S, "TypeError: textNodes[0] is undefined")
  ELSE IF /\ e.t = "close"
          /\ e.tag.name = "MeasurementUnit"
          /\ RequiresReferenceSize(Trim(e.textNodes[1]), has)
  THEN Throw(S, "Measurement unit requires a reference size.")
  ELSE IF e.t # "open" THEN S
  ELSE IF e.tag.name = "Page"
    THEN AltoHandlePage(S, e, ReferenceSize(has, arr, S.pageIdx))
  ELSE IF e.tag.name = "sourceImageInformation"
    THEN [AltoEnter(S, "handleSourceImageInformation", e, 0)
            EXCEPT !.sourceImageInformation = ImageSource(<<>>)]
  ELSE S

----------------------------------------------------------------------------
(* The tokenizer: the documents explored *)

\* <<width, height>> of the pages and of the caller's reference sizes.
PageSizes == {<<2, 1>>, <<2, 2>>}

RefSizes == {<<2, 1>>, <<4, 2>>}

\* The families of documents explored.  "layout": every nesting of the
\* structural elements, legal or not, parsed without reference sizes.
\* "scaling": regular pages of either size, parsed with a reference-size
\* list.  "description" (ALTO): a Description section before the page.
\* "lines" (ALTO), "words" (hOCR): one page of lines of words, the words
\* with and without hyphenation, confidence and shape.  "alternatives"
\* (hOCR): words with alternative readings.  "paragraphs" (hOCR): one
\* paragraph of lines of words, with and without hyphenation.  "shapes":
\* an element with a polygon, its point list in several notations, and an
\* element inside it with a polygon of its own.
Configs ==
  {<<"hocr", "layout", FALSE>>, <<"hocr", "scaling", TRUE>>,
   <<"alto", "layout", FALSE>>, <<"alto", "scaling", TRUE>>,
   <<"alto", "description", FALSE>>, <<"alto", "description", TRUE>>,
   <<"alto", "lines", FALSE>>, <<"hocr", "words", TRUE>>,
   <<"hocr", "alternatives", FALSE>>, <<"hocr", "paragraphs", FALSE>>,
   <<"alto", "shapes", TRUE>>, <<"hocr", "shapes", TRUE>>}

\* The number of events of the longest stream of the family.
Budget ==
  CASE family = "lines" -> MaxLineEvents
    [] family = "words" -> MaxWordEvents
    [] family = "alternatives" -> MaxAltEvents
    [] family = "paragraphs" -> MaxParEvents
    [] family = "shapes" -> MaxShapeEvents
    [] OTHER -> MaxEvents

FamilyPageSizes == IF family = "scaling" THEN PageSizes ELSE {<<2, 1>>}

HocrTag(name, cls, bbox) ==
  [Tag0 EXCEPT !.name = name, !.cls = cls, !.bbox = bbox]

HocrPageTags == {[HocrTag("div", "ocr_page", TRUE) EXCEPT !.size = sz] :
                   sz \in FamilyPageSizes}

HocrBlockTag == HocrTag("div", "ocr_carea", TRUE)

HocrParTag == HocrTag("p", "ocr_par", FALSE)

HocrLineTags == {HocrTag("span", "ocr_line", b) : b \in BOOLEAN}

HocrWordTag == HocrTag("span", "ocrx_word", TRUE)

HocrPlainTag == HocrTag("span", "", FALSE)

\* What tells the elements of a source apart: the class, or else the name.
Key(tag) == IF tag.cls # "" THEN tag.cls ELSE tag.name

InnerKey == IF open = <<>> THEN "" ELSE Key(Last(open).tag)

\* A word with an x_wconf clause: a percentage or a fraction.
HocrWordTags ==
  {[HocrWordTag EXCEPT !.wconf = c] : c \in {NoConfidence, <<82, 1>>, <<1, 2>>}}

\* The alternatives marker of a word, its ins span and its del spans, with
\* and without an nlp attribute.
HocrAlternativesTag == HocrTag("span", "alternatives", FALSE)

HocrInsTag == HocrTag("ins", "", FALSE)

HocrDelTags == {[HocrTag("del", "", FALSE) EXCEPT !.nlp = b] : b \in BOOLEAN}

\* The tags that may open inside an element of the source, by the key of
\* that element: the legal nestings of hOCR and, in the layout family,
\* illegal ones.
HocrChildTags(parent) ==
  CASE family = "layout" ->
         CASE parent = "" -> HocrPageTags
           [] parent = "ocr_page" ->
                {HocrBlockTag, HocrParTag, HocrWordTag} \cup HocrLineTags
           [] parent = "ocr_carea" -> {HocrParTag} \cup HocrLineTags
           [] parent = "ocr_par" -> {HocrBlockTag} \cup HocrLineTags
           [] parent = "ocr_line" ->
                {HocrWordTag, HocrPlainTag} \cup HocrLineTags
           [] parent = "ocrx_word" -> {HocrPlainTag}
           [] OTHER -> {}
    [] family = "scaling" ->
         CASE parent = "" -> HocrPageTags
           [] parent = "ocr_page" ->
                {HocrBlockTag, HocrTag("span", "ocr_line", TRUE)}
           [] parent = "ocr_carea" -> {HocrTag("span", "ocr_line", TRUE)}
           [] parent = "ocr_line" -> {HocrWordTag}
           [] OTHER -> {}
    [] family = "words" ->
         CASE parent = "" -> IF nOpen = 0 THEN HocrPageTags ELSE {}
           [] parent = "ocr_page" -> {HocrTag("span", "ocr_line", TRUE)}
           [] parent = "ocr_line" -> HocrWordTags
           [] OTHER -> {}
    [] family = "alternatives" ->
         CASE parent = "" -> IF nOpen = 0 THEN HocrPageTags ELSE {}
           [] parent = "ocr_page" ->
                IF nOpen = 1 THEN {HocrTag("span", "ocr_line", TRUE)} ELSE {}
           [] parent = "ocr_line" -> {HocrWordTag}
           [] parent = "ocrx_word" -> {HocrAlternativesTag}
           [] parent = "alternatives" -> {HocrInsTag} \cup HocrDelTags
           [] OTHER -> {}
    [] family = "paragraphs" ->
         CASE parent = "" -> IF nOpen = 0 THEN HocrPageTags ELSE {}
           [] parent = "ocr_page" -> IF nOpen = 1 THEN {HocrParTag} ELSE {}
           [] parent = "ocr_par" -> {HocrTag("span", "ocr_line", TRUE)}
           [] parent = "ocr_line" -> {HocrWordTag}
           [] OTHER -> {}
    [] family = "shapes" ->
         CASE parent = "" -> IF nOpen = 0 THEN HocrPageTags ELSE {}
           [] parent = "ocr_page" ->
                IF nOpen = 1
                THEN {[HocrTag("span", "ocr_line", TRUE)
                         EXCEPT !.poly = TRUE, !.points = pts] :
                        pts \in PointLists}
                       \cup {[HocrTag("div", "ocr_carea", TRUE)
                                EXCEPT !.poly = TRUE, !.points = "tall"]}
                ELSE {}
           [] parent = "ocr_carea" ->
                IF nOpen = 2
                THEN {[HocrTag("span", "ocr_line", TRUE)
                         EXCEPT !.poly = TRUE, !.points = "tall"]}
                ELSE {}
           [] OTHER -> {}

\* The text nodes that may occur directly inside an element.  In the
\* narrow families a text node follows an open tag (a word's text) or a
\* close tag (the whitespace between two words).
HocrTexts(parent) ==
  CASE family = "layout" ->
         CASE parent = "ocr_line" -> {<<" ">>, <<" ", " ">>, <<"a">>}
           [] parent = "ocrx_word" -> {<<" ">>, <<"a">>, <<SHY>>}
           [] parent = "span" -> {<<"a">>}
           [] OTHER -> {}
    [] family = "scaling" ->
         CASE parent = "ocrx_word" -> {<<"a">>}
           [] OTHER -> {}
    [] family = "words" ->
         CASE parent = "ocr_line" ->
                IF lastEv.t = "close" THEN {<<" ">>} ELSE {}
           [] parent = "ocrx_word" ->
                IF lastEv.t = "open" THEN {<<"a">>, <<"a", SHY>>} ELSE {}
           [] OTHER -> {}
    [] family = "alternatives" ->
         CASE parent = "ocrx_word" ->
                IF lastEv.t = "open" THEN {<<"a">>} ELSE {}
           [] parent = "alternatives" ->
                IF lastEv.t = "open" THEN {<<"c">>} ELSE {}
           [] parent = "ins" ->
                IF lastEv.t = "open" THEN {<<"a">>, <<" ", "b">>} ELSE {}
           [] parent = "del" ->
                IF lastEv.t = "open" THEN {<<"c">>, <<"&amp;">>} ELSE {}
           [] OTHER -> {}
    [] family = "paragraphs" ->
         CASE parent = "ocrx_word" ->
                IF lastEv.t = "open" THEN {<<"a">>, <<"a", SHY>>} ELSE {}
           [] OTHER -> {}
    [] family = "shapes" -> {}

AltoTag(name, geom) == [Tag0 EXCEPT !.name = name, !.geom = geom]

AltoPageTags == {[AltoTag("Page", "none") EXCEPT !.size = sz] :
                   sz \in FamilyPageSizes}

AltoString(geom, content) ==
  [AltoTag("String", geom) EXCEPT !.content = content]

\* A String with SUBS_TYPE="HypPart1" or with a WC attribute.
AltoWordTags ==
  {AltoString("pos", <<"a">>),
   [AltoString("pos", <<"a">>) EXCEPT !.hyp = TRUE],
   [AltoString("pos", <<"a">>) EXCEPT !.wc = <<1, 2>>]}

AltoPolygonTags == {[AltoTag("Polygon", "none") EXCEPT !.points = pts] :
                      pts \in {"none", "rect"}}

\* The tags that may open inside an element of the source: the legal
\* nestings of ALTO and, in the layout family, a TextLine directly in a
\* Page and a String directly in a TextBlock.
AltoChildTags(parent) ==
  CASE family = "layout" ->
         CASE parent = "" -> AltoPageTags
           [] parent = "Page" ->
                {AltoTag("PrintSpace", "pos"), AltoTag("TextBlock", "pos"),
                 AltoTag("TextLine", "pos")}
           [] parent = "PrintSpace" -> {AltoTag("TextBlock", "pos")}
           [] parent = "TextBlock" ->
                {AltoTag("TextLine", "pos"), AltoTag("TextLine", "none"),
                 AltoTag("Shape", "none"), AltoString("pos", <<"a">>)}
           [] parent = "TextLine" ->
                {AltoString("pos", <<"a">>), AltoString("zero", <<"a">>),
                 AltoString("pos", <<>>), AltoTag("SP", "pos"),
                 AltoTag("Shape", "none")}
           [] parent = "String" ->
                {AltoTag("Shape", "none"), AltoTag("ALTERNATIVE", "none")}
           [] parent = "Shape" -> AltoPolygonTags
           [] OTHER -> {}
    [] family = "scaling" ->
         CASE parent = "" -> AltoPageTags
           [] parent = "Page" -> {AltoTag("TextBlock", "pos")}
           [] parent = "TextBlock" -> {AltoTag("TextLine", "pos")}
           [] parent = "TextLine" -> {AltoString("pos", <<"a">>)}
           [] OTHER -> {}
    [] family = "lines" ->
         CASE parent = "" -> IF nOpen = 0 THEN AltoPageTags ELSE {}
           [] parent = "Page" ->
                IF nOpen = 1 THEN {AltoTag("TextBlock", "pos")} ELSE {}
           [] parent = "TextBlock" -> {AltoTag("TextLine", "pos")}
           [] parent = "TextLine" ->
                AltoWordTags \cup {AltoTag("SP", "pos"),
                                   AltoTag("Shape", "none")}
           [] parent = "String" -> {AltoTag("Shape", "none")}
           [] parent = "Shape" ->
                {[AltoTag("Polygon", "none") EXCEPT !.points = "rect"]}
           [] OTHER -> {}
    [] family = "shapes" ->
         CASE parent = "" -> IF nOpen = 0 THEN AltoPageTags ELSE {}
           [] parent = "Page" ->
                IF nOpen = 1
                THEN {AltoTag("TextBlock", "tall"), AltoTag("TextBlock", "none")}
                ELSE {}
           [] parent = "TextBlock" ->
                IF nOpen = 2 THEN {AltoTag("Shape", "none")}
                ELSE IF nOpen = 4 THEN {AltoTag("TextLine", "pos")}
                ELSE {}
           [] parent = "TextLine" ->
                IF nOpen = 5 THEN {AltoTag("Shape", "none")} ELSE {}
           [] parent = "Shape" ->
                IF nOpen = 3
                THEN {[AltoTag("Polygon", "none") EXCEPT !.points = pts] :
                        pts \in PointLists}
                ELSE IF nOpen = 6
                THEN {[AltoTag("Polygon", "none") EXCEPT !.points = "rect"]}
                ELSE {}
           [] OTHER -> {}
    [] family = "description" ->
         CASE parent = "" ->
                AltoPageTags \cup {AltoTag("MeasurementUnit", "none"),
                                   AltoTag("sourceImageInformation", "none")}
           [] parent = "sourceImageInformation" ->
                {AltoTag("fileName", "none")}
           [] parent = "Page" -> {AltoTag("TextBlock", "pos")}
           [] OTHER -> {}

AltoTexts(parent) ==
  CASE parent = "ALTERNATIVE" -> {<<"a">>}
    [] parent = "MeasurementUnit" -> {<<"pixel">>, <<"mm">>}
    [] parent = "fileName" -> {<<"a">>}
    [] OTHER -> {}

\* Where a stream may end: after the last closing tag, or cut short inside
\* a word, a line, a shape or the image information.
MayEnd ==
  \/ open = <<>>
  \/ InnerKey = "ocrx_word" /\ family = "layout"
  \/ InnerKey \in {"String", "TextLine", "Shape", "sourceImageInformation"}

\* The entries a reference-size list may hold at the index of the page that
\* is opening: a size, or nothing once the list has ended.
RefEntries ==
  IF ~hasRefs THEN {NoSize}
  ELSE IF sizeArr # <<>> /\ Last(sizeArr) = NoSize THEN {NoSize}
  ELSE RefSizes \cup {NoSize}

IsPageTag(tag) == tag.cls = "ocr_page" \/ tag.name = "Page"

\* The events the tokenizer may yield next.
OpenEvents(tags) == {Event("open", tag, nOpen + 1, <<>>, <<>>) : tag \in tags}

TextEvents(vals) == {Event("text", Tag0, 0, v, <<>>) : v \in vals}

CloseEvents ==
  IF open = <<>> THEN {}
  ELSE {Event("close", Last(open).tag, Last(open).sid, <<>>,
              Last(open).textNodes)}

\* The tokenizer yields event e (with entry r of the reference-size list
\* becoming known if e opens a page).
Yields(e, r) ==
  /\ ~eof
  /\ nEv < Budget
  /\ nEv' = nEv + 1
  /\ lastEv' = e
  /\ eof' = eof
  /\ nOpen' = IF e.t = "open" THEN nOpen + 1 ELSE nOpen
  /\ open' = CASE e.t = "open" ->
                    Append(open, [sid |-> e.sid, tag |-> e.tag,
                                  textNodes |-> <<>>])
               [] e.t = "close" -> Front(open)
               [] e.t = "text" ->
                    IF open = <<>> THEN open
                    ELSE [open EXCEPT ![Len(open)].textNodes =
                                        Append(@, e.val)]
  /\ parentOf' = IF e.t = "open"
                   THEN Append(parentOf,
                               IF open = <<>> THEN 0 ELSE Last(open).sid)
                   ELSE parentOf
  /\ tagOf' = IF e.t = "open" THEN Append(tagOf, e.tag) ELSE tagOf
  /\ textOf' = CASE e.t = "open" -> Append(textOf, <<>>)
                 [] e.t = "text" /\ open # <<>> ->
                      [textOf EXCEPT ![Last(open).sid] = Append(@, e.val)]
                 [] OTHER -> textOf
  /\ srcPages' = IF e.t = "open" /\ IsPageTag(e.tag)
                   THEN Append(srcPages, e.sid) ELSE srcPages
  /\ sizeArr' = IF e.t = "open" /\ IsPageTag(e.tag) /\ hasRefs
                  THEN Append(sizeArr, r) ELSE sizeArr
  /\ locked' = TRUE
  /\ UNCHANGED <<fmt, family, hasRefs>>

\* The tokenizer has nothing more to yield: eventIter.next() is done.
Exhausted ==
  /\ eof \/ MayEnd
  /\ eof' = TRUE
  /\ lastEv' = NoEvent
  /\ locked' = FALSE
  /\ UNCHANGED <<fmt, family, hasRefs, sizeArr, open, nOpen, nEv, srcPages,
                 parentOf, tagOf, textOf>>

HocrEvents ==
  OpenEvents(HocrChildTags(InnerKey)) \cup TextEvents(HocrTexts(InnerKey))
    \cup CloseEvents

AltoEvents ==
  OpenEvents(AltoChildTags(InnerKey)) \cup TextEvents(AltoTexts(InnerKey))
    \cup CloseEvents

\* A generator that also runs for a caller that has not initialized the
\* tokenizer: what failing before any event is consumed excludes.
DrivenUninitialized ==
  /\ outcome.kind = "pending"
  /\ IF op = "pages" THEN TRUE
     ELSE format = fmt /\ yielded = <<>>

\* The caller is waiting for the page generator's next result: the
\* generator runs.  parseOcrPage and a caller that leaves the sequence ask
\* for one result only.
Driven ==
  /\ outcome.kind = "pending"
  /\ IF op = "pages" THEN TRUE
     ELSE initialized /\ format = fmt /\ yielded = <<>>

Running(fn) ==
  /\ Driven
  /\ status = "running"
  /\ frames # <<>>
  /\ Last(frames).fn = fn

----------------------------------------------------------------------------
(* The steps of the hOCR decoder *)

\* parseHocrPages consumes an event.
HocrPagesStep ==
  /\ fmt = "hocr"
  /\ Running("parseHocrPages")
  /\ \E e \in HocrEvents, r \in RefEntries :
       /\ Yields(e, r)
       /\ Commit(parseHocrPages(Cur, e, hasRefs, sizeArr'))

\* handleChildren consumes an event.
HocrChildrenStep ==
  /\ fmt = "hocr"
  /\ Running("handleChildren")
  /\ \E e \in HocrEvents, r \in RefEntries :
       /\ Yields(e, r)
       /\ Commit(handleChildren(Cur, e))

\* handleWord consumes an event.
HocrWordStep ==
  /\ fmt = "hocr"
  /\ Running("handleWord")
  /\ \E e \in HocrEvents, r \in RefEntries :
       /\ Yields(e, r)
       /\ Commit(HocrHandleWord(Cur, e))

\* handleChildren finds the stream exhausted: its loop ends.
HocrChildrenDone ==
  /\ fmt = "hocr"
  /\ Running("handleChildren")
  /\ Exhausted
  /\ Commit(HocrLeaveChildren(Cur, AtEof))

\* handleWord finds the stream exhausted: it throws.
HocrWordDone ==
  /\ fmt = "hocr"
  /\ Running("handleWord")
  /\ Exhausted
  /\ Commit(Throw(Cur, "Unexpected end of stream while parsing word"))

\* parseHocrPages finds the stream exhausted: the generator is finished.
HocrPagesDone ==
  /\ fmt = "hocr"
  /\ Running("parseHocrPages")
  /\ Exhausted
  /\ Commit([Cur EXCEPT !.status = "done"])

HocrNext ==
  \/ HocrPagesStep
  \/ HocrChildrenStep
  \/ HocrWordStep
  \/ HocrChildrenDone
  \/ HocrWordDone
  \/ HocrPagesDone

----------------------------------------------------------------------------
(* The steps of the ALTO decoder *)

\* A handler's loop consumes an event.
AltoPagesStep ==
  /\ fmt = "alto"
  /\ Running("parseAltoPages")
  /\ \E e \in AltoEvents, r \in RefEntries :
       /\ Yields(e, r)
       /\ Commit(parseAltoPages(Cur, e, hasRefs, sizeArr'))

AltoPageStep ==
  /\ fmt = "alto"
  /\ Running("handlePage")
  /\ \E e \in AltoEvents, r \in RefEntries :
       /\ Yields(e, r)
       /\ Commit(AltoPageLoop(Cur, e))

AltoBlockStep ==
  /\ fmt = "alto"
  /\ Running("handleBlock")
  /\ \E e \in AltoEvents, r \in RefEntries :
       /\ Yields(e, r)
       /\ Commit(AltoBlockLoop(Cur, e))

AltoLineStep ==
  /\ fmt = "alto"
  /\ Running("handleLine")
  /\ \E e \in AltoEvents, r \in RefEntries :
       /\ Yields(e, r)
       /\ Commit(AltoLineLoop(Cur, e))

AltoWordStep ==
  /\ fmt = "alto"
  /\ Running("handleWord")
  /\ \E e \in AltoEvents, r \in RefEntries :
       /\ Yields(e, r)
       /\ Commit(AltoWordLoop(Cur, e))

AltoShapeStep ==
  /\ fmt = "alto"
  /\ Running("handleShape")
  /\ \E e \in AltoEvents, r \in RefEntries :
       /\ Yields(e, r)
       /\ Commit(AltoShapeLoop(Cur, e))

AltoSourceImageStep ==
  /\ fmt = "alto"
  /\ Running("handleSourceImageInformation")
  /\ \E e \in AltoEvents, r \in RefEntries :
       /\ Yields(e, r)
       /\ Commit(AltoSourceImageLoop(Cur, e))

\* A handler's loop finds the stream exhausted and ends.
AltoPagesDone ==
  /\ fmt = "alto"
  /\ Running("parseAltoPages")
  /\ Exhausted
  /\ Commit([Cur EXCEPT !.status = "done"])

AltoPageDone ==
  /\ fmt = "alto"
  /\ Running("handlePage")
  /\ Exhausted
  /\ Commit(AltoLeavePage(Cur, AtEof))

AltoBlockDone ==
  /\ fmt = "alto"
  /\ Running("handleBlock")
  /\ Exhausted
  /\ Commit(AltoLeaveBlock(Cur, AtEof))

AltoLineDone ==
  /\ fmt = "alto"
  /\ Running("handleLine")
  /\ Exhausted
  /\ Commit(AltoLeaveLine(Cur, AtEof))

AltoWordDone ==
  /\ fmt = "alto"
  /\ Running("handleWord")
  /\ Exhausted
  /\ Commit(AltoLeaveWord(Cur, AtEof))

AltoShapeDone ==
  /\ fmt = "alto"
  /\ Running("handleShape")
  /\ Exhausted
  /\ Commit(AltoLeaveShape(Cur, AtEof))

AltoSourceImageDone ==
  /\ fmt = "alto"
  /\ Running("handleSourceImageInformation")
  /\ Exhausted
  /\ Commit(NoteReturn([Cur EXCEPT !.frames = Front(@)],
                       "sourceImageInformation", Last(frames).sid, AtEof))

AltoNext ==
  \/ AltoPagesStep
  \/ AltoPageStep
  \/ AltoBlockStep
  \/ AltoLineStep
  \/ AltoWordStep
  \/ AltoShapeStep
  \/ AltoSourceImageStep
  \/ AltoPagesDone
  \/ AltoPageDone
  \/ AltoBlockDone
  \/ AltoLineDone
  \/ AltoWordDone
  \/ AltoShapeDone
  \/ AltoSourceImageDone

----------------------------------------------------------------------------

\* The outcome of a call that has not ended, a page, and an error.
Pending == [kind |-> "pending", page |-> 0, msg |-> ""]

GotPage(p) == [kind |-> "page", page |-> p, msg |-> ""]

Failure(msg) == [kind |-> "error", page |-> 0, msg |-> msg]

\* The state of a decode before its first event.
Fresh ==
  /\ sizeArr = <<>>
  /\ open = <<>>
  /\ nOpen = 0
  /\ nEv = 0
  /\ eof = FALSE
  /\ lastEv = NoEvent
  /\ srcPages = <<>>
  /\ frames = <<Frame(IF fmt = "hocr" THEN "parseHocrPages"
                      ELSE "parseAltoPages", 0, 0, Tag0)>>
  /\ elementStack = <<>>
  /\ elems = <<>>
  /\ scaleFactor = 1
  /\ sourceImageInformation = NoImageSource
  /\ pageIdx = 0
  /\ yielded = <<>>
  /\ returns = <<>>
  /\ log = <<>>
  /\ parentOf = <<>>
  /\ tagOf = <<>>
  /\ textOf = <<>>
  /\ status = "running"
  /\ locked = FALSE
  /\ outcome = Pending

\* parseHocrPages / parseAltoPages read to the end by an initialized caller.
Init ==
  /\ \E cfg \in Configs :
       /\ fmt = cfg[1]
       /\ family = cfg[2]
       /\ hasRefs = cfg[3]
  /\ op = "pages"
  /\ initialized = TRUE
  /\ format = fmt
  /\ Fresh

Next == HocrNext \/ AltoNext

Spec == Init /\ [][Next]_vars

----------------------------------------------------------------------------
(* The callers that take one page: parseOcrPage, and a loop over the page
   sequence that is left after its first page *)

\* The decoders and documents these callers are explored with.
CallerConfigs ==
  {<<"hocr", "layout", FALSE>>, <<"alto", "layout", FALSE>>,
   <<"alto", "description", FALSE>>}

Formats == {"hocr", "alto", "pdf"}

NotInitializedError ==
  "XML parser WASM not initialized, call initialize() first!"

\* The call ends with outcome o; nothing else changes, and the page
\* generator is not resumed.
Ends(o) ==
  /\ outcome = Pending
  /\ outcome' = o
  /\ UNCHANGED <<fmt, family, hasRefs, sizeArr, open, nOpen, nEv, eof, lastEv,
                 srcPages, frames, elementStack, elems, scaleFactor,
                 sourceImageInformation, pageIdx, yielded, returns, log,
                 parentOf, tagOf, textOf, status, locked, op, initialized,
                 format>>

\* parseOcrPage: if (!isInitialized()) throw
NotInitialized ==
  /\ op = "page"
  /\ ~initialized
  /\ Ends(Failure(NotInitializedError))

\* parseOcrPage: the format tag names neither decoder.
UnsupportedFormat ==
  /\ op = "page"
  /\ initialized
  /\ format \notin {"hocr", "alto"}
  /\ Ends(Failure("Unsupported format"))

\* parseOcrPage: the generator's first result is a page.
TakeFirstPage ==
  /\ op = "page"
  /\ yielded # <<>>
  /\ Ends(GotPage(yielded[1].page))

\* parseOcrPage: the generator's first result is its end.
NoPageFound ==
  /\ op = "page"
  /\ initialized /\ format = fmt
  /\ status = "done" /\ yielded = <<>>
  /\ Ends(Failure("Failed to parse page"))

\* The generator's first result is an exception: the caller gets it.
Rejected ==
  /\ op \in {"page", "break"}
  /\ initialized /\ format = fmt
  /\ status = "failed" /\ yielded = <<>>
  /\ Ends(Failure(Last(log).msg))

\* The loop over the page sequence is left after its first page: the
\* generator's return() ends parseHocrPages / parseAltoPages, which hold
\* the event iterator in a local variable and have no finally clause.
LeaveSequence ==
  /\ op = "break"
  /\ yielded # <<>>
  /\ Ends([kind |-> "left", page |-> yielded[1].page, msg |-> ""])

\* The loop over the page sequence ends with the sequence.
SequenceEnds ==
  /\ op = "break"
  /\ status = "done" /\ yielded = <<>>
  /\ Ends([kind |-> "ended", page |-> 0, msg |-> ""])

CallerInit ==
  /\ op \in {"page", "break"}
  /\ format \in Formats
  /\ initialized \in BOOLEAN
  /\ op = "break" => initialized /\ format # "pdf"
  /\ \E cfg \in CallerConfigs :
       /\ fmt = cfg[1]
       /\ family = cfg[2]
       /\ hasRefs = cfg[3]
  /\ format # "pdf" => fmt = format
  /\ Fresh

CallerNext ==
  \/ HocrNext
  \/ AltoNext
  \/ NotInitialized
  \/ UnsupportedFormat
  \/ TakeFirstPage
  \/ NoPageFound
  \/ Rejected
  \/ LeaveSequence
  \/ SequenceEnds

\* Continuations that can run do run: the event loop leaves none behind.
CallerSpec == CallerInit /\ [][CallerNext]_vars /\ WF_vars(CallerNext)

----------------------------------------------------------------------------
(* What the properties below speak of *)

Ids == 1..Len(elems)

\* The closing tag of element sid of the source has been consumed.
SrcClosed(sid) ==
  /\ sid \in 1..nOpen
  /\ \A i \in 1..Len(open) : open[i].sid # sid

\* The stream read so far is a well-nested stream or the beginning of one.
WellNested == eof => open = <<>>

ClosedPages == {i \in 1..Len(srcPages) : SrcClosed(srcPages[i])}

AtCloseOf(sid) == [t |-> "close", sid |-> sid]

\* The parents of a model object: the places it has in children lists.
Places(id) ==
  UNION {{<<p, i>> : i \in {k \in 1..Len(elems[p].children) :
                              elems[p].children[k].id = id}} : p \in Ids}

\* The model object made for element sid of the source, if any (0: none).
ElemOf(sid) ==
  IF \E id \in Ids : elems[id].sid = sid
  THEN CHOOSE id \in Ids : elems[id].sid = sid
  ELSE 0

RECURSIVE SrcAncestors(_)
SrcAncestors(sid) ==
  IF sid = 0 \/ parentOf[sid] = 0 THEN {}
  ELSE {parentOf[sid]} \cup SrcAncestors(parentOf[sid])

Logged(msg, sid) == \E i \in 1..Len(log) : log[i] = [msg |-> msg, sid |-> sid]

\* The hOCR decoder skipped line sid of the source for want of a bbox.
SkippedLine(sid) == Logged("Missing bbox attribute on line element", sid)

\* The hOCR decoder met element sid where its role is not legal.
Unexpected(sid) == Logged("Unexpected hOCR element type", sid)

\* Model object id is a child of the object made for the element of the
\* source that encloses its own.
AttachedToSrcParent(id) ==
  LET pu == ElemOf(parentOf[elems[id].sid]) IN
  pu # 0 /\ \E i \in 1..Len(elems[pu].children) : elems[pu].children[i].id = id

\* The box of an element of the scaling family's documents under factor f:
\* they all carry the same coordinates.
ScaledBox(f) ==
  IF fmt = "hocr" THEN BoxOfCorners(HocrBBox, f)
  ELSE AltoBox(AltoTag("TextBlock", "pos"), f)

----------------------------------------------------------------------------
(* Properties *)

\* C1: reading a well-nested hOCR stream, the pages yielded so far are the
\* page elements closed so far, in document order, each yielded at the
\* moment its own closing tag is consumed; and once the stream is exhausted
\* the generator is done.
C1_HocrPageYieldedAtItsClose ==
  (fmt = "hocr" /\ WellNested) =>
    /\ Len(yielded) = Cardinality(ClosedPages)
    /\ \A i \in 1..Len(yielded) :
         /\ i <= Len(srcPages)
         /\ elems[yielded[i].page].sid = srcPages[i]
         /\ yielded[i].at = AtCloseOf(srcPages[i])
    /\ eof => status = "done"

\* C2: reading a well-nested ALTO stream, the pages yielded so far are the
\* Page elements closed so far, in document order, each yielded at the
\* moment its own closing tag is consumed (the page handler returns there,
\* not later); and once the stream is exhausted the generator is done.
C2_AltoPageYieldedAtItsClose ==
  (fmt = "alto" /\ WellNested /\ status # "failed") =>
    /\ Len(yielded) = Cardinality(ClosedPages)
    /\ \A i \in 1..Len(yielded) :
         /\ i <= Len(srcPages)
         /\ elems[yielded[i].page].sid = srcPages[i]
         /\ yielded[i].at = AtCloseOf(srcPages[i])
         /\ \E j \in 1..Len(returns) :
              returns[j] = [fn |-> "page", sid |-> srcPages[i],
                            at |-> AtCloseOf(srcPages[i])]
    /\ eof => status = "done"

\* C3: in both decoders the i-th page element of the document (counting
\* from 0) is handed entry i of the reference-size list, and a page past
\* the end of the list gets none and is not scaled.
C3_PageGetsItsOwnListEntry ==
  \A id \in Ids :
    elems[id].type = "page" =>
      \E i \in 1..Len(srcPages) :
        /\ srcPages[i] = elems[id].sid
        /\ elems[id].refSize = ReferenceSize(hasRefs, sizeArr, i - 1)
        /\ elems[id].refSize = NoSize => elems[id].scale = 1

\* C4: in both decoders a page whose reference size equals its native size
\* has the size and the descendant geometry it has without a reference
\* size: the factor is 1, for square and non-square pages alike.
C4_MatchingReferenceSizeIsIdentity ==
  \A id \in Ids :
    (elems[id].type = "page" /\ elems[id].refSize = elems[id].native) =>
      /\ elems[id].scale = 1
      /\ elems[id].box = <<0, 0, elems[id].native[1], elems[id].native[2]>>
      /\ \A d \in Ids :
           (elems[d].page = id /\ family = "scaling") =>
             elems[d].box = ScaledBox(1)

\* C5: a page's scale factor is the x-axis factor (reference width over
\* native width, or 1 without a reference size); the context keeps it until
\* the next page starts, and every coordinate of every descendant of the
\* page is the source's coordinate times that factor.  Differing x and y
\* factors do not make the parse fail.
C5_ScaleFactorIsXAxisFactor ==
  /\ \A id \in Ids :
       IF elems[id].type = "page"
       THEN /\ elems[id].refSize = NoSize => elems[id].scale = 1
            /\ elems[id].refSize # NoSize =>
                 elems[id].scale * elems[id].native[1] = elems[id].refSize[1]
            /\ elems[id].box = <<0, 0, elems[id].native[1] * elems[id].scale,
                                 elems[id].native[2] * elems[id].scale>>
       ELSE /\ elems[id].scale = elems[elems[id].page].scale
            /\ family = "scaling" =>
                 elems[id].box = ScaledBox(elems[id].scale)
  /\ \A id \in Ids :
       (elems[id].type = "page"
          /\ \A o \in Ids : elems[o].type = "page" => o <= id)
         => scaleFactor = elems[id].scale
  /\ (family = "scaling" /\ ~eof) => status = "running"


\* An ALTO word is made when its String opens and joins its line when its
\* handler returns; until then it sits on the element stack only.
WordInProgress(id) ==
  /\ elems[id].type = "word"
  /\ \E k \in 1..Len(elementStack) : elementStack[k] = id

\* C6: in both decoders every block, paragraph, line and word that was made
\* and kept is in the children list of exactly one parent, exactly once; a
\* page is in none, and a parent is made before its children (no cycles).
C6_OwnershipIsTreeShaped ==
  \A id \in Ids :
    /\ Cardinality(Places(id)) <= 1
    /\ \A pl \in Places(id) : pl[1] < id
    /\ elems[id].type = "page" => Places(id) = {}
    /\ (elems[id].type # "page" /\ ~WordInProgress(id)) =>
         Cardinality(Places(id)) = 1

\* A page holds a block that holds a line that holds two words.
C6_Witness ==
  \E pg, b, l, w1, w2 \in Ids :
    /\ elems[pg].type = "page" /\ elems[b].type = "block"
    /\ elems[l].type = "line" /\ elems[w1].type = "word"
    /\ elems[w2].type = "word" /\ w1 # w2
    /\ Places(b) = {<<pg, 1>>}
    /\ Places(l) = {<<b, 1>>}
    /\ \A w \in {w1, w2} :
         Cardinality(Places(w)) = 1 /\ \A pl \in Places(w) : pl[1] = l

\* C7: in both decoders, once the closing tag of a block, paragraph, line or
\* word has been consumed, no step changes the object made for it: no child
\* is appended and no field changes.
C7_NoChangeAfterClose ==
  [][\A id \in Ids :
       (elems[id].type # "page" /\ SrcClosed(elems[id].sid)) =>
         elems'[id] = elems[id]]_vars

\* C8: in the hOCR decoder, the handler of an element that encloses a
\* skipped bbox-less line returns at that element's own closing tag, and a
\* line that follows the skipped line in the same element is attached to
\* the object made for that element.
C8_SkippedLineKeepsDepth ==
  (fmt = "hocr" /\ WellNested) =>
    /\ \A j \in 1..Len(returns) :
         (/\ returns[j].fn \in {"page", "block", "paragraph", "line"}
          /\ \E s \in 1..nOpen :
               SkippedLine(s) /\ parentOf[s] = returns[j].sid)
           => returns[j].at = AtCloseOf(returns[j].sid)
    /\ \A id \in Ids :
         (/\ elems[id].type = "line"
          /\ \E s \in 1..(elems[id].sid - 1) :
               SkippedLine(s) /\ parentOf[s] = parentOf[elems[id].sid])
           => AttachedToSrcParent(id)

\* C9: in the hOCR decoder an element met where its role is not legal is
\* skipped with its whole subtree: no object is made for any element inside
\* it, the parse does not fail, and an element that follows it in the same
\* parent is attached to the object made for that parent.
C9_UnexpectedElementSkippedWithSubtree ==
  (fmt = "hocr" /\ WellNested) =>
    /\ \A id \in Ids :
         \A a \in SrcAncestors(elems[id].sid) : ~Unexpected(a)
    /\ (\E s \in 1..nOpen : Unexpected(s)) => status # "failed"
    /\ \A id \in Ids :
         (/\ elems[id].type # "page"
          /\ \E s \in 1..(elems[id].sid - 1) :
               Unexpected(s) /\ parentOf[s] = parentOf[elems[id].sid])
           => AttachedToSrcParent(id)

\* C10: in both decoders every word in a line has non-empty text.
C10_WordTextNonEmpty ==
  \A l \in Ids :
    \A i \in 1..Len(elems[l].children) :
      LET w == elems[l].children[i].id IN
      (w > 0 /\ elems[w].type = "word") => elems[w].text # <<>>


----------------------------------------------------------------------------
(* Properties of the ALTO geometry *)

\* The pages the generator has yielded.
YieldedPages == {yielded[i].page : i \in 1..Len(yielded)}

\* The elements of the source directly inside element sid.
SrcChildren(sid) == {s \in 1..nOpen : parentOf[s] = sid}

HasShape(sid) == \E s \in SrcChildren(sid) : tagOf[s].name = "Shape"

\* C11: every block, line and word of a page the ALTO decoder has yielded
\* has x, y, width and height all non-negative: no deferred -1 remains,
\* also on elements whose HPOS or VPOS is 0.
C11_YieldedGeometryResolved ==
  fmt = "alto" =>
    \A id \in Ids :
      (elems[id].type # "page" /\ elems[id].page \in YieldedPages) =>
        \A k \in 1..4 : elems[id].box[k] >= 0

\* C12: once the ALTO decoder has consumed the closing tag of a TextBlock,
\* TextLine or String that has no geometry attributes and holds no Shape,
\* the decode has failed and the page holding the element is not yielded.
C12_UnresolvableGeometryIsFatal ==
  fmt = "alto" =>
    \A id \in Ids :
      (/\ elems[id].type # "page"
       /\ tagOf[elems[id].sid].geom = "none"
       /\ ~HasShape(elems[id].sid)
       /\ SrcClosed(elems[id].sid))
        => status = "failed" /\ elems[id].page \notin YieldedPages

----------------------------------------------------------------------------
(* Properties of lines and their text *)

\* The members of a set of numbers, in increasing order.
RECURSIVE Sorted(_)
Sorted(S) ==
  IF S = {} THEN <<>>
  ELSE LET m == CHOOSE x \in S : \A y \in S : x <= y
       IN  <<m>> \o Sorted(S \ {m})

\* The handler that was started for element sid of the source has returned.
Returned(fn, sid) ==
  \E j \in 1..Len(returns) : returns[j].fn = fn /\ returns[j].sid = sid

\* The elements named name directly inside element sid, in document order.
SrcChildrenNamed(sid, name) ==
  Sorted({s \in SrcChildren(sid) : Key(tagOf[s]) = name})

\* C13: a finished ALTO line whose TextLine holds no SP and N >= 1 Strings
\* has 2N - 1 children: the words made for its N Strings, in document
\* order, with one single-space fragment between each two neighbours and
\* none after the last.
C13_AltoImplicitSpaces ==
  fmt = "alto" =>
    \A l \in Ids :
      LET strings == SrcChildrenNamed(elems[l].sid, "String")
          N == Len(strings)
          cs == elems[l].children
      IN  (/\ elems[l].type = "line"
           /\ Returned("line", elems[l].sid)
           /\ SrcChildrenNamed(elems[l].sid, "SP") = <<>>
           /\ N >= 1)
            => /\ Len(cs) = 2 * N - 1
               /\ \A i \in 1..Len(cs) :
                    IF i % 2 = 1
                    THEN cs[i].id > 0
                         /\ elems[cs[i].id].sid = strings[(i + 1) \div 2]
                    ELSE cs[i] = ChildStr(<<" ">>)

\* What element sid of the source spells: its text nodes, each trimmed.
SrcText(sid) == Concat([i \in 1..Len(textOf[sid]) |-> Trim(textOf[sid][i])])

\* Page element sid of the source holds one line and nothing else, and that
\* line holds N >= 2 plain words (some text, no soft hyphen, nothing nested)
\* and no text of its own between them.
OneLineOfPlainWords(sid) ==
  LET ls == SrcChildrenNamed(sid, "ocr_line")
  IN  /\ Len(ls) = 1
      /\ SrcChildren(sid) = {ls[1]}
      /\ textOf[ls[1]] = <<>>
      /\ SrcChildren(ls[1]) = Range(SrcChildrenNamed(ls[1], "ocrx_word"))
      /\ Cardinality(SrcChildren(ls[1])) >= 2
      /\ \A w \in SrcChildren(ls[1]) :
           /\ SrcChildren(w) = {}
           /\ SrcText(w) # <<>>
           /\ SHY \notin Range(SrcText(w))

\* C14: an hOCR page that was parsed with a reference size equal to its own
\* size and holds one line of plain words with no whitespace between the
\* word elements is emitted with the words' texts joined by single spaces
\* as its text, every word's box being its raw bbox.
C14_HocrWordsJoinedBySpaces ==
  fmt = "hocr" =>
    \A p \in YieldedPages :
      (/\ elems[p].refSize = elems[p].native
       /\ OneLineOfPlainWords(elems[p].sid))
        => LET l == SrcChildrenNamed(elems[p].sid, "ocr_line")[1]
               ws == SrcChildrenNamed(l, "ocrx_word")
           IN  /\ Text(elems, p)
                    = Join([i \in 1..Len(ws) |-> SrcText(ws[i])], <<" ">>)
               /\ \A i \in 1..Len(ws) :
                    /\ ElemOf(ws[i]) # 0
                    /\ elems[ElemOf(ws[i])].box = BoxOfCorners(HocrBBox, 1)

\* The children of element id are all lines.
OnlyLines(id) ==
  \A i \in 1..Len(elems[id].children) :
    /\ elems[id].children[i].id > 0
    /\ elems[elems[id].children[i].id].type = "line"

\* The last word of line l starts a hyphenation.
EndsHyphenated(l) ==
  LET ws == SelectSeq(elems[l].children, LAMBDA c : c.id > 0)
  IN  ws # <<>> /\ elems[Last(ws).id].hyphenStart

\* What a line spells: its fragments and its words' texts, left to right.
RECURSIVE Spelled(_)
Spelled(cs) ==
  IF cs = <<>> THEN <<>>
  ELSE (IF Head(cs).id = 0 THEN Head(cs).str ELSE elems[Head(cs).id].text)
         \o Spelled(Tail(cs))

\* The texts of the lines ls, a space after each line but the last and but
\* those whose last word starts a hyphenation.
RECURSIVE LinesJoined(_)
LinesJoined(ls) ==
  IF ls = <<>> THEN <<>>
  ELSE Spelled(elems[Head(ls).id].children)
         \o (IF Len(ls) > 1 /\ ~EndsHyphenated(Head(ls).id)
               THEN <<" ">> ELSE <<>>)
         \o LinesJoined(Tail(ls))

\* C15: the text of a page whose children are all lines is the lines' texts
\* in order, with one space after each line but the last, and none after a
\* line whose last word starts a hyphenation; a line without words does not
\* break the getter.
C15_PageTextJoinsLines ==
  \A p \in Ids :
    (elems[p].type = "page" /\ OnlyLines(p)) =>
      Text(elems, p) = LinesJoined(elems[p].children)

\* A page of lines only, with a line that ends hyphenated and a line
\* without words, both followed by another line.
C15_Witness ==
  \E p \in Ids :
    /\ elems[p].type = "page" /\ OnlyLines(p)
    /\ \E i, j \in 1..(Len(elems[p].children) - 1) :
         /\ EndsHyphenated(elems[p].children[i].id)
         /\ LineWords(elems, elems[p].children[j].id) = <<>>

\* The objects of the subtree of id in document order: id, then the
\* subtrees of its children from left to right.
RECURSIVE Walk(_)
Walk(id) ==
  <<id>> \o Concat([i \in 1..Len(elems[id].children) |->
                      IF elems[id].children[i].id = 0 THEN <<>>
                      ELSE Walk(elems[id].children[i].id)])

\* The descendants of id that are of the given type, in document order.
DescendantsOfType(id, type) ==
  SelectSeq(Tail(Walk(id)), LAMBDA d : elems[d].type = type)

NoRepeats(ids) == \A i, j \in 1..Len(ids) : ids[i] = ids[j] => i = j

\* C16: the lines and words views of a page, a block and a paragraph list
\* the lines and the words of the subtree once each, in document order,
\* whatever levels are present; and a page whose children are all lines
\* has those children as its lines, no blocks, no paragraphs, and the
\* lines' words in order as its words.
C16_FlattenedViews ==
  \A id \in Ids :
    /\ HasLines(elems[id]) =>
         /\ Lines(elems, id) = DescendantsOfType(id, "line")
         /\ Words(elems, id) = DescendantsOfType(id, "word")
         /\ NoRepeats(Lines(elems, id)) /\ NoRepeats(Words(elems, id))
    /\ (elems[id].type = "page" /\ OnlyLines(id)) =>
         LET cs == elems[id].children IN
         /\ Lines(elems, id) = [i \in 1..Len(cs) |-> cs[i].id]
         /\ Blocks(elems, id) = <<>>
         /\ Paragraphs(elems, id) = <<>>
         /\ Words(elems, id)
              = Concat([i \in 1..Len(cs) |-> Words(elems, cs[i].id)])

\* A page whose children are two lines, each with a word.
C16_Witness ==
  \E p \in Ids :
    /\ elems[p].type = "page" /\ OnlyLines(p)
    /\ Len(elems[p].children) = 2
    /\ \A i \in 1..2 : LineWords(elems, elems[p].children[i].id) # <<>>

----------------------------------------------------------------------------
(* Properties of hOCR words *)

\* Word element w of the source holds one alternatives marker and nothing
\* else, the marker one ins span with some text and otherwise del spans.
HasAlternatives(w) ==
  LET as == SrcChildrenNamed(w, "alternatives")
  IN  /\ Len(as) = 1
      /\ SrcChildren(w) = {as[1]}
      /\ Len(SrcChildrenNamed(as[1], "ins")) = 1
      /\ SrcText(SrcChildrenNamed(as[1], "ins")[1]) # <<>>
      /\ SrcChildren(as[1]) = Range(SrcChildrenNamed(as[1], "ins"))
                                \cup Range(SrcChildrenNamed(as[1], "del"))

Resolved(t) == IF IncludesAmp(t) THEN resolveXmlEntities(t) ELSE t

\* C17: a word of an hOCR line that holds an alternatives marker with one
\* ins span and any number of del spans has the ins span's text as its
\* text and one choice per del span, in document order, with the del
\* span's text, carrying a probability exactly if the del span has an nlp
\* attribute; text directly inside the word or the marker adds nothing.
C17_HocrAlternatives ==
  fmt = "hocr" =>
    \A w \in 1..nOpen :
      (/\ Key(tagOf[w]) = "ocrx_word"
       /\ Returned("word", w)
       /\ SrcClosed(w)
       /\ HasAlternatives(w))
        => LET a == SrcChildrenNamed(w, "alternatives")[1]
               ins == SrcChildrenNamed(a, "ins")[1]
               dels == SrcChildrenNamed(a, "del")
               word == ElemOf(w)
           IN  /\ word # 0
               /\ elems[word].text = Resolved(SrcText(ins))
               /\ elems[word].choices =
                    [i \in 1..Len(dels) |->
                       [text |-> Resolved(SrcText(dels[i])),
                        hasProbability |-> tagOf[dels[i]].nlp]]
               /\ elems[word].hasChoices = (dels # <<>>)

\* A finished word with an ins span and two del spans, of which the first
\* alone has an nlp attribute.
C17_Witness ==
  \E w \in 1..nOpen :
    /\ Key(tagOf[w]) = "ocrx_word" /\ Returned("word", w) /\ SrcClosed(w)
    /\ HasAlternatives(w)
    /\ LET dels == SrcChildrenNamed(SrcChildrenNamed(w, "alternatives")[1],
                                    "del")
       IN  /\ Len(dels) = 2
           /\ tagOf[dels[1]].nlp /\ ~tagOf[dels[2]].nlp

\* The x_wconf value of the source element a word was made for, and that
\* value divided by 100 (confidences are pairs numerator, denominator).
RawConfidence(w) == tagOf[elems[w].sid].wconf

Hundredth(c) == IF c = NoConfidence THEN c ELSE <<c[1], c[2] * 100>>

ExceedsOne(c) == c # NoConfidence /\ c[1] > c[2]

\* C18: the words of an hOCR line keep their raw confidences while the line
\* is being read; once the line has finished they all have their raw
\* confidence divided by 100 if one of them had a raw confidence above 1,
\* and their raw confidence otherwise, whatever the other lines hold.
\* Raw confidences between 0 and 100 then end between 0 and 1.
C18_ConfidenceNormalizedPerLine ==
  fmt = "hocr" =>
    \A l \in Ids :
      elems[l].type = "line" =>
        LET ws == Words(elems, l)
            divide == /\ Returned("line", elems[l].sid)
                      /\ \E i \in 1..Len(ws) : ExceedsOne(RawConfidence(ws[i]))
        IN  \A i \in 1..Len(ws) :
              /\ elems[ws[i]].confidence =
                   IF divide THEN Hundredth(RawConfidence(ws[i]))
                   ELSE RawConfidence(ws[i])
              /\ (divide /\ RawConfidence(ws[i]) # NoConfidence) =>
                   elems[ws[i]].confidence[1] <= elems[ws[i]].confidence[2]

\* Two finished lines: a word of raw confidence 1/2 on the first, kept, and
\* a word of raw confidence 82 on the second, divided.
C18_Witness ==
  \E l1, l2 \in Ids :
    /\ l1 < l2
    /\ elems[l1].type = "line" /\ Returned("line", elems[l1].sid)
    /\ elems[l2].type = "line" /\ Returned("line", elems[l2].sid)
    /\ \E i \in 1..Len(Words(elems, l1)) :
         /\ RawConfidence(Words(elems, l1)[i]) = <<1, 2>>
         /\ elems[Words(elems, l1)[i]].confidence = <<1, 2>>
    /\ \E i \in 1..Len(Words(elems, l2)) :
         /\ RawConfidence(Words(elems, l2)[i]) = <<82, 1>>
         /\ elems[Words(elems, l2)[i]].confidence = <<82, 100>>

----------------------------------------------------------------------------
(* Properties of the feature flags *)

\* The objects below page p.
Descendants(p) == Range(Tail(Walk(p)))

HasFeature(p, flag) == flag \in Range(elems[p].features)

\* C19: once the handler of a page has returned, in either decoder, the
\* page's features hold POLYGONS exactly if a block, paragraph, line or
\* word below the page has a polygon, CHOICES exactly if a word has
\* choices, HYPHEN exactly if a word starts a hyphenation, and CONFIDENCE
\* exactly if a word has a confidence.
C19_FeaturesReflectPresence ==
  \A p \in Ids :
    (elems[p].type = "page" /\ Returned("page", elems[p].sid)) =>
      LET ws == {d \in Descendants(p) : elems[d].type = "word"} IN
      /\ HasFeature(p, "POLYGONS")
           <=> \E d \in Descendants(p) : elems[d].polygon # <<>>
      /\ HasFeature(p, "CHOICES") <=> \E w \in ws : elems[w].hasChoices
      /\ HasFeature(p, "HYPHEN") <=> \E w \in ws : elems[w].hyphenStart
      /\ HasFeature(p, "CONFIDENCE")
           <=> \E w \in ws : elems[w].confidence # NoConfidence

\* The handler of page p has returned: it has written the page's flags.
FlagsWritten(p) == Returned("page", elems[p].sid)

\* Every descendant of the page element of p has been read: the element is
\* closed, or the stream has ended inside it.
AllRead(p) == SrcClosed(elems[p].sid) \/ eof

\* C20: in both decoders a page's feature list is empty until its handler
\* returns, the handler returns only when every descendant of the page
\* element has been read, and from then on the list does not change and no
\* child is appended to the page or to an object below it.
C20_FlagsAfterAllDescendants ==
  [][/\ \A p \in Ids' :
          elems'[p].type = "page" =>
            /\ ~FlagsWritten(p)' => elems'[p].features = <<>>
            /\ FlagsWritten(p)' => AllRead(p)'
     /\ \A p \in Ids :
          (elems[p].type = "page" /\ FlagsWritten(p)) =>
            /\ elems'[p].features = elems[p].features
            /\ \A d \in Range(Walk(p)) :
                 elems'[d].children = elems[d].children]_vars

----------------------------------------------------------------------------
(* Properties of the page sequence *)

\* C21: in both decoders, once a page has been yielded no step changes the
\* page or an object of its subtree.
C21_NoChangeAfterYield ==
  [][\A p \in YieldedPages :
       \A d \in Range(Walk(p)) : elems'[d] = elems[d]]_vars

\* A page with a line has been yielded and the decoder has gone on to
\* attach a child to a later page.
C21_Witness ==
  \E p \in YieldedPages :
    /\ Lines(elems, p) # <<>>
    /\ \E q \in Ids :
         /\ q > p /\ elems[q].type = "page" /\ q \notin YieldedPages
         /\ elems[q].children # <<>>

\* The sourceImageInformation sections of the source.
Sections == {s \in 1..nOpen : Key(tagOf[s]) = "sourceImageInformation"}

\* Section s had been read when the i-th page was yielded.
ReadBeforeYield(s, i) ==
  IF yielded[i].at = AtEof THEN SrcClosed(s)
  ELSE s < yielded[i].at.sid /\ s \notin SrcAncestors(yielded[i].at.sid)

\* The sections read before the i-th page was yielded and after the pages
\* before it were: the i-th page is the first page yielded after them.
PendingSections(i) ==
  {s \in Sections :
     /\ ReadBeforeYield(s, i)
     /\ \A j \in 1..(i - 1) : ~ReadBeforeYield(s, j)}

\* The ImageSource read from section s: the text of its last fileName.
SectionValue(s) ==
  LET names == SrcChildrenNamed(s, "fileName")
  IN  ImageSource(IF names = <<>> THEN <<>>
                  ELSE Concat(textOf[Last(names)]))

\* C22: an ALTO page is yielded with an image source exactly if it is the
\* first page yielded after a sourceImageInformation section was read, the
\* source being that of the last such section; once a page has been
\* yielded nothing is pending in the parser context until another section
\* is read.
C22_ImageSourceOnFirstPageOnly ==
  fmt = "alto" =>
    /\ \A i \in 1..Len(yielded) :
         LET ss == PendingSections(i)
         IN  elems[yielded[i].page].imageSource =
               IF ss = {} THEN NoImageSource
               ELSE SectionValue(CHOOSE s \in ss : \A t \in ss : t <= s)
    /\ (/\ yielded # <<>>
        /\ \A s \in Sections :
             \E i \in 1..Len(yielded) : ReadBeforeYield(s, i))
         => sourceImageInformation = NoImageSource

----------------------------------------------------------------------------
(* Properties of the failures *)

UnitError == "Measurement unit requires a reference size."

\* MeasurementUnit element s of the source is closed, lies before the first
\* Page and names a unit other than pixel.
ForeignUnit(s) ==
  /\ Key(tagOf[s]) = "MeasurementUnit"
  /\ SrcClosed(s)
  /\ \A i \in 1..Len(srcPages) : s < srcPages[i]
  /\ textOf[s] # <<>>
  /\ Trim(textOf[s][1]) # <<"pixel">>

\* C23: the ALTO decoder fails with the unit error, having yielded no page,
\* once a MeasurementUnit other than pixel was closed before the first Page
\* and the caller gave no reference sizes; and it raises that error in no
\* other case.
C23_ForeignUnitNeedsReferenceSize ==
  fmt = "alto" =>
    /\ (~hasRefs /\ \E s \in 1..nOpen : ForeignUnit(s)) =>
         /\ status = "failed"
         /\ Logged(UnitError, 0)
         /\ yielded = <<>>
    /\ Logged(UnitError, 0) =>
         ~hasRefs /\ \E s \in 1..nOpen : ForeignUnit(s)

\* The decode has failed over a unit other than pixel.
C23_Witness ==
  /\ fmt = "alto" /\ ~hasRefs
  /\ \E s \in 1..nOpen : ForeignUnit(s)
  /\ status = "failed" /\ Logged(UnitError, 0)

\* The stream has ended inside word element s of the source, whose handler
\* had been called for it.
EndedInsideWord(s) ==
  /\ eof
  /\ \E i \in 1..Len(open) : open[i].sid = s
  /\ Key(tagOf[s]) \in {"ocrx_word", "String"}
  /\ \/ \E i \in 1..Len(frames) :
          frames[i].fn = "handleWord" /\ frames[i].sid = s
     \/ Returned("word", s)

\* C24: in both decoders, when the stream has ended inside a word the
\* decode does not complete (it ends in failure), the word is in no line,
\* and the page that encloses the word is not yielded.
C24_EndInsideWordIsFatal ==
  \A s \in 1..nOpen :
    EndedInsideWord(s) =>
      /\ status # "done"
      /\ (status # "running" => status = "failed")
      /\ ElemOf(s) # 0 => Places(ElemOf(s)) = {}
      /\ \A i \in 1..Len(yielded) :
           elems[yielded[i].page].sid \notin SrcAncestors(s)

----------------------------------------------------------------------------
(* Properties of the callers that take one page *)

\* What parseOcrPage may have come to in the current state.
PageCallOutcomes ==
  IF ~initialized THEN {Pending, Failure(NotInitializedError)}
  ELSE IF format \notin {"hocr", "alto"}
    THEN {Pending, Failure("Unsupported format")}
  ELSE IF yielded # <<>> THEN {Pending, GotPage(yielded[1].page)}
  ELSE IF status = "done" THEN {Pending, Failure("Failed to parse page")}
  ELSE IF status = "failed" THEN {Pending, Failure(Last(log).msg)}
  ELSE {Pending}

\* C25: parseOcrPage fails without an event consumed if the tokenizer was
\* not initialized or the format tag names no decoder; otherwise it runs
\* the decoder the tag names and returns the first page that decoder
\* yields, after which no further event is consumed, or fails if the
\* decoder ends without a page; and whenever the call can end, it can end
\* only so.
C25_SinglePageOperation ==
  [][op = "page" =>
       /\ outcome' \in PageCallOutcomes'
       /\ (outcome' = Pending /\ PageCallOutcomes' # {Pending}) =>
            (ENABLED (NotInitialized \/ UnsupportedFormat \/ TakeFirstPage
                        \/ NoPageFound \/ Rejected))'
       /\ (~initialized \/ format \notin {"hocr", "alto"}) =>
            nEv' = 0 /\ ~locked'
       /\ outcome'.kind = "page" =>
            /\ Len(yielded') = 1
            /\ elems'[outcome'.page].type = "page"
            /\ elems'[outcome'.page].sid = srcPages'[1]
            /\ Last(frames').fn =
                 IF format = "hocr" THEN "parseHocrPages"
                 ELSE "parseAltoPages"
       /\ outcome.kind # "pending" => nEv' = nEv]_vars

\* parseOcrPage has returned the first page of an hOCR stream, a page with
\* a child, and has left the rest of the stream unread.
C25_Witness ==
  /\ op = "page" /\ format = "hocr"
  /\ outcome.kind = "page"
  /\ elems[outcome.page].children # <<>>
  /\ ~eof

----------------------------------------------------------------------------
(* Properties of the abandoned page sequence *)

\* The caller has taken a page and will not resume the page generator,
\* and the tokenizer has not reached the end of the stream.
Abandoned ==
  /\ outcome.kind \in {"page", "left"}
  /\ yielded # <<>>
  /\ ~eof

\* C26: if the caller abandons the page sequence after a page was emitted
\* (leaves its loop over the generator, or takes the first page through
\* parseOcrPage) while events of the stream remain unread, the lock of the
\* byte-stream reader is eventually released.
C26_AbandonmentReleasesReader == Abandoned ~> ~locked

----------------------------------------------------------------------------
(* Properties of the shape of the tree *)

\* The kind of an entry of a children list: a string fragment or the type
\* of the object.
KindOfChild(c) == IF c.id = 0 THEN "fragment" ELSE elems[c.id].type

\* The kinds of children the data model gives each type of object.
KindsIn(type) ==
  CASE type = "page" -> {"block", "paragraph", "line"}
    [] type = "block" -> {"paragraph", "line"}
    [] type = "paragraph" -> {"line"}
    [] type = "line" -> {"word", "fragment"}
    [] OTHER -> {}

\* C27: in every page yielded by either decoder, whatever the nesting of
\* roles in the stream, the children of a page are blocks, paragraphs or
\* lines, those of a block paragraphs or lines, those of a paragraph lines,
\* and those of a line words or string fragments.
C27_ContainmentKinds ==
  \A p \in YieldedPages :
    \A d \in Range(Walk(p)) :
      \A i \in 1..Len(elems[d].children) :
        KindOfChild(elems[d].children[i]) \in KindsIn(elems[d].type)

\* A yielded hOCR page with an element of an illegal role inside it and a
\* line decoded after that element.
C27_Witness ==
  \E p \in YieldedPages :
    \E s \in 1..nOpen :
      /\ Unexpected(s)
      /\ elems[p].sid \in SrcAncestors(s)
      /\ \E d \in Descendants(p) :
           /\ elems[d].type = "line"
           /\ elems[d].sid > s
           /\ elems[d].children # <<>>

\* The nearest element of the given name that encloses element sid of the
\* source (0: none).
RECURSIVE NearestEnclosing(_, _)
NearestEnclosing(sid, name) ==
  IF sid = 0 \/ parentOf[sid] = 0 THEN 0
  ELSE IF tagOf[parentOf[sid]].name = name THEN parentOf[sid]
  ELSE NearestEnclosing(parentOf[sid], name)

\* Model object id is a child of the object made for the nearest element
\* of the given name that encloses its own element.
AttachedToEnclosing(id, name) ==
  LET a == NearestEnclosing(elems[id].sid, name) IN
  a # 0 =>
    /\ ElemOf(a) # 0
    /\ \E i \in 1..Len(elems[ElemOf(a)].children) :
         elems[ElemOf(a)].children[i].id = id

\* C28: while the ALTO decoder reads a well-nested stream, each line is a
\* child of the block made for the nearest TextBlock that encloses its
\* TextLine, and each word whose String has closed is a child of the line
\* made for the nearest TextLine that encloses its String; also with
\* several TextBlocks in a page, several TextLines in a block, and Shape
\* elements in them.
C28_AltoTreeMirrorsNesting ==
  (fmt = "alto" /\ WellNested) =>
    \A id \in Ids :
      /\ elems[id].type = "line" => AttachedToEnclosing(id, "TextBlock")
      /\ (elems[id].type = "word" /\ SrcClosed(elems[id].sid)) =>
           AttachedToEnclosing(id, "TextLine")

----------------------------------------------------------------------------
(* Properties of the regions the hOCR handlers consume *)

\* Every line element of the stream read so far has a bbox clause.
EveryLineHasBBox ==
  \A s \in 1..nOpen : tagOf[s].cls = "ocr_line" => tagOf[s].bbox

----------------------------------------------------------------------------
(* Properties of the whitespace of hOCR lines *)

Blank == ChildStr(<<" ">>)

\* Entry c of a children list is a string fragment of blanks only.
WhitespaceOnly(c) ==
  c.id = 0 /\ \A k \in 1..Len(c.str) : IsSpace(c.str[k])

\* The hOCR lines whose handler has returned.
FinishedLines ==
  {id \in Ids : elems[id].type = "line" /\ Returned("line", elems[id].sid)}

\* C30: the children of an hOCR line that has finished never begin with a
\* whitespace-only fragment, never end with a single-blank fragment, and
\* never hold two single-blank fragments side by side; also when empty
\* words were dropped between whitespace text nodes.
C30_HocrLineWhitespace ==
  fmt = "hocr" =>
    \A l \in FinishedLines :
      LET cs == elems[l].children IN
      /\ cs # <<>> => ~WhitespaceOnly(cs[1]) /\ Last(cs) # Blank
      /\ \A i \in 1..(Len(cs) - 1) : ~(cs[i] = Blank /\ cs[i + 1] = Blank)

\* A finished hOCR line with a child left, inside which an empty word was
\* dropped and two whitespace text nodes were read, of which at most one
\* is in its children.
C30_Witness ==
  \E l \in FinishedLines :
    LET cs == elems[l].children
        ts == textOf[elems[l].sid]
    IN  /\ fmt = "hocr"
        /\ cs # <<>>
        /\ \E s \in 1..nOpen :
             /\ parentOf[s] = elems[l].sid
             /\ Logged("Word element has no text, skipping.", s)
        /\ Len(SelectSeq(ts, LAMBDA t : Trim(t) = <<>>)) >= 2
        /\ Len(SelectSeq(cs, LAMBDA c : c = Blank)) <= 1

----------------------------------------------------------------------------
(* Properties of the explicit spaces of ALTO lines *)

\* The String and SP elements directly inside element sid, in document
\* order.
SrcWordsAndSpaces(sid) ==
  Sorted({s \in SrcChildren(sid) : Key(tagOf[s]) \in {"String", "SP"}})

\* C31: a finished ALTO line whose TextLine holds at least one SP has as
\* children exactly the words made for its Strings and one single-space
\* fragment for each of its SPs, in document order: every SP gives one
\* fragment at its place and no space is synthesized.
C31_AltoExplicitSpaces ==
  fmt = "alto" =>
    \A l \in Ids :
      LET src == SrcWordsAndSpaces(elems[l].sid)
          cs == elems[l].children
      IN  (/\ elems[l].type = "line"
           /\ Returned("line", elems[l].sid)
           /\ SrcChildrenNamed(elems[l].sid, "SP") # <<>>)
            => /\ Len(cs) = Len(src)
               /\ \A i \in 1..Len(cs) :
                    IF Key(tagOf[src[i]]) = "SP"
                    THEN cs[i] = ChildStr(<<" ">>)
                    ELSE cs[i].id > 0 /\ elems[cs[i].id].sid = src[i]

----------------------------------------------------------------------------
(* Properties of hOCR lines whose words are all empty *)

\* Word element sid of the source spells nothing: neither it nor anything
\* inside it holds text other than whitespace.
SrcEmptyWord(sid) ==
  /\ Key(tagOf[sid]) = "ocrx_word"
  /\ \A d \in 1..nOpen :
       (d = sid \/ sid \in SrcAncestors(d)) => SrcText(d) = <<>>

\* Line l was made for a line element with a bbox, directly inside an
\* element that has an object of its own, that holds at least one word
\* and only words, all of them empty, and has been read to its end.
LineOfEmptyWords(l) ==
  LET ws == SrcChildrenNamed(elems[l].sid, "ocrx_word") IN
  /\ elems[l].type = "line"
  /\ ElemOf(parentOf[elems[l].sid]) # 0
  /\ SrcClosed(elems[l].sid)
  /\ ws # <<>>
  /\ \A i \in 1..Len(ws) : SrcEmptyWord(ws[i])
  /\ SrcChildren(elems[l].sid) = Range(ws)

\* C32: an hOCR line with a bbox whose words all have empty text is kept
\* in the tree, as a child of its parent, with no word among its children;
\* no object is made for any of its words; the parse does not fail; and
\* the lines that follow it in the same parent are made and attached to
\* that parent.
C32_HocrLineOfEmptyWords ==
  (fmt = "hocr" /\ WellNested /\ EveryLineHasBBox) =>
    \A l \in Ids :
      LineOfEmptyWords(l) =>
        /\ AttachedToSrcParent(l)
        /\ LineWords(elems, l) = <<>>
        /\ \A s \in SrcChildren(elems[l].sid) : ElemOf(s) = 0
        /\ status # "failed"
        /\ \A s \in SrcChildren(parentOf[elems[l].sid]) :
             (s > elems[l].sid /\ Key(tagOf[s]) = "ocr_line") =>
               /\ ElemOf(s) # 0
               /\ elems[ElemOf(s)].type = "line"
               /\ AttachedToSrcParent(ElemOf(s))

\* A line of empty words has been read to its end, and a line with a
\* word that has text follows it in the same parent.
C32_Witness ==
  \E l \in Ids :
    /\ fmt = "hocr" /\ EveryLineHasBBox
    /\ LineOfEmptyWords(l)
    /\ \E s \in SrcChildren(parentOf[elems[l].sid]) :
         /\ s > elems[l].sid
         /\ Key(tagOf[s]) = "ocr_line"
         /\ ElemOf(s) # 0
         /\ LineWords(elems, ElemOf(s)) # <<>>

----------------------------------------------------------------------------
(* Properties of hyphenation *)

\* Word w was made for a word element of the source all of whose text
\* stands directly in it: nothing inside it spells anything.
PlainWord(w) ==
  /\ elems[w].type = "word"
  /\ \A d \in 1..nOpen : elems[w].sid \in SrcAncestors(d) => SrcText(d) = <<>>

\* The last word of line l starts a hyphenation.
EndsWithHyphenStart(l) ==
  LET ws == LineWords(elems, l) IN
  ws # <<>> /\ elems[Last(ws).id].hyphenStart

\* The text of paragraph p as the hyphenation rule has it: the texts of
\* its lines, with a space after each line but the last and but those
\* whose last word starts a hyphenation.
ParagraphTextExpected(p) ==
  LET n == Len(elems[p].children) IN
  Concat([i \in 1..n |->
    LET l == elems[p].children[i].id IN
    Text(elems, l)
      \o (IF i < n /\ ~EndsWithHyphenStart(l) THEN <<" ">> ELSE <<>>)])

\* C33: an hOCR word whose accumulated text ends with the soft hyphen is
\* stored with hyphenStart set and without that last character; every
\* other word is stored with hyphenStart false and its text as
\* accumulated; and in the text of a paragraph no separator follows a line
\* whose last word starts a hyphenation.
C33_HocrHyphenation ==
  fmt = "hocr" =>
    /\ \A w \in Ids :
         PlainWord(w) =>
           LET acc == SrcText(elems[w].sid) IN
           IF acc # <<>> /\ Last(acc) = SHY
           THEN elems[w].hyphenStart /\ elems[w].text = Front(acc)
           ELSE ~elems[w].hyphenStart /\ elems[w].text = acc
    /\ \A p \in Ids :
         elems[p].type = "paragraph" =>
           Text(elems, p) = ParagraphTextExpected(p)

\* A paragraph of two lines, the first ending with a word read from text
\* that ends with the soft hyphen, the second holding a word.
C33_Witness ==
  \E p \in Ids :
    /\ fmt = "hocr"
    /\ elems[p].type = "paragraph"
    /\ Len(elems[p].children) = 2
    /\ LET l1 == elems[p].children[1].id
           l2 == elems[p].children[2].id
       IN  /\ EndsWithHyphenStart(l1)
           /\ Text(elems, l1) = <<"a">>
           /\ Text(elems, l2) = <<"a">>
           /\ Text(elems, p) = <<"a", "a">>

----------------------------------------------------------------------------
(* Properties of the text of blocks and pages *)

\* The last word of the subtree of child c starts a hyphenation.
LastWordStartsHyphen(c) ==
  LET ws == Words(elems, c) IN ws # <<>> /\ elems[Last(ws)].hyphenStart

\* The separator after child i of object id: none after the last child and
\* after a child whose last word starts a hyphenation; a space between two
\* lines; a newline between a line and a following paragraph or block, and
\* after a paragraph or a block.
SeparatorAfter(id, i) ==
  LET cs == elems[id].children
      c == cs[i].id
  IN  IF i = Len(cs) \/ LastWordStartsHyphen(c) THEN <<>>
      ELSE IF elems[c].type = "line" /\ elems[cs[i + 1].id].type = "line"
        THEN <<" ">>
      ELSE <<"\n">>

\* C34: the text of a block and of a page is the texts of its children
\* with, between two consecutive children, a newline between a line and a
\* following paragraph or block, a space between two lines, and nothing
\* after a child whose last word starts a hyphenation or after the last
\* child.
C34_BlockAndPageTextSeparators ==
  \A id \in Ids :
    elems[id].type \in {"block", "page"} =>
      Text(elems, id) =
        Concat([i \in 1..Len(elems[id].children) |->
                  Text(elems, elems[id].children[i].id)
                    \o SeparatorAfter(id, i)])

----------------------------------------------------------------------------
(* Properties of polygons *)

\* The Shape elements of the source directly inside element sid whose
\* handler has returned.
ShapesRead(sid) ==
  {s \in SrcChildren(sid) : tagOf[s].name = "Shape" /\ Returned("shape", s)}

\* The Polygon elements of the source inside the Shapes read of element
\* sid that carry a point list.
PolygonsRead(sid) ==
  {p \in 1..nOpen : /\ tagOf[p].name = "Polygon"
                    /\ tagOf[p].points # "none"
                    /\ parentOf[p] \in ShapesRead(sid)}

\* box is the smallest axis-aligned box that holds every point of pts.
MinimalBox(box, pts) ==
  LET n == 1..Len(pts) IN
  /\ \A i \in n : /\ box[1] <= pts[i][1] /\ pts[i][1] <= box[1] + box[3]
                  /\ box[2] <= pts[i][2] /\ pts[i][2] <= box[2] + box[4]
  /\ \E i \in n : pts[i][1] = box[1]
  /\ \E i \in n : pts[i][1] = box[1] + box[3]
  /\ \E i \in n : pts[i][2] = box[2]
  /\ \E i \in n : pts[i][2] = box[2] + box[4]

\* Every coordinate of the polygon is a number.
AllNumbers(pts) ==
  \A i \in 1..Len(pts) : pts[i][1] # NaN /\ pts[i][2] # NaN

\* The box of ALTO element id is derived from its Shape: the element lacks
\* a usable HPOS, VPOS, WIDTH or HEIGHT and its Shape has been read.
BoxFromShape(id) ==
  /\ elems[id].type # "page"
  /\ tagOf[elems[id].sid].geom \in {"none", "zero"}
  /\ PolygonsRead(elems[id].sid) # {}

\* ALTO element id has all four geometry attributes and a Shape whose
\* polygon describes the same rectangle.
SameRectangle(id) ==
  /\ elems[id].type # "page"
  /\ PolygonsRead(elems[id].sid) # {}
  /\ \A p \in PolygonsRead(elems[id].sid) :
       \/ tagOf[elems[id].sid].geom = "tall"
            /\ tagOf[p].points \in {"tall", "tallcommas"}
       \/ tagOf[elems[id].sid].geom = "pos" /\ tagOf[p].points = "rect"

\* C35: in the ALTO decoder a box derived from a Shape polygon (of numbers)
\* is the minimal axis-aligned box of the polygon's points, and an element
\* with complete geometry attributes and a Shape polygon of the same
\* rectangle stores the box that the polygon gives.
C35_BoxFromPolygon ==
  fmt = "alto" =>
    \A id \in Ids :
      /\ (BoxFromShape(id) /\ AllNumbers(elems[id].polygon))
           => MinimalBox(elems[id].box, elems[id].polygon)
      /\ SameRectangle(id) => MinimalBox(elems[id].box, elems[id].polygon)

\* The numbers a point list of the documents explored holds, in order.
NumbersOf(points) ==
  CASE points = "rect" -> <<2, 2, 4, 2, 4, 4, 2, 4>>
    [] points \in {"tall", "tallcommas"} -> <<2, 2, 4, 2, 4, 6, 2, 6>>
    [] points = "odd" -> <<2, 2, 4, 2, 4>>
    [] OTHER -> <<>>

OddList(points) == Len(NumbersOf(points)) % 2 = 1

\* The points (n1,n2), (n3,n4), ... of a list of 2k numbers, scaled.
PointsOf(points, f) ==
  LET n == NumbersOf(points) IN
  [i \in 1..(Len(n) \div 2) |-> <<n[2 * i - 1] * f, n[2 * i] * f>>]

\* The scale factor of the page that holds object id.
PageScale(id) ==
  IF elems[id].page \in Ids THEN elems[elems[id].page].scale ELSE 1

\* Some warning names element sid of the source.
WarnedAt(sid) == \E i \in 1..Len(log) : log[i].sid = sid

\* The point lists object id takes its polygon from, each with the element
\* of the source that carries it: the poly clause of an hOCR element, the
\* Polygon elements inside the Shape read of an ALTO element.
PointListsOf(id) ==
  IF fmt = "hocr"
  THEN IF tagOf[elems[id].sid].poly
         THEN {<<elems[id].sid, tagOf[elems[id].sid].points>>} ELSE {}
  ELSE {<<p, tagOf[p].points>> : p \in PolygonsRead(elems[id].sid)}

\* C36: in both decoders the polygon parsed from a list of 2k numbers,
\* delimited by blanks or by commas within a pair, is the k points
\* (n1,n2), (n3,n4), ... in order, each coordinate multiplied by the
\* page's scale factor; an odd-length list is reported by a warning.
C36_PolygonParsing ==
  \A id \in Ids :
    elems[id].type # "page" =>
      \A src \in PointListsOf(id) :
        IF OddList(src[2]) THEN WarnedAt(src[1])
        ELSE elems[id].polygon = PointsOf(src[2], PageScale(id))

----------------------------------------------------------------------------
(* Properties of the units *)

\* Page object p was decoded without a reference size: its scale factor is
\* the 1 that handlePage takes when it is given none.
Unscaled(p) == elems[p].refSize = NoSize /\ elems[p].scale = 1

\* C37: when an ALTO document names a unit other than pixel before its
\* first Page, the decoder yields no page whose scale factor is the 1 of a
\* missing reference size, also when the caller's list of reference sizes
\* has no entry for the page.
C37_NoUnscaledForeignUnits ==
  (fmt = "alto" /\ \E s \in 1..nOpen : ForeignUnit(s)) =>
    \A i \in 1..Len(yielded) : ~Unscaled(yielded[i].page)

----------------------------------------------------------------------------
(* Termination *)

\* The page generator has finished or failed.
Terminated == status \in {"done", "failed"}

\* A turn of a handler's loop takes the next event of the stream, which no
\* turn has taken before.
ConsumesOne == ~eof /\ ~eof' /\ nEv' = nEv + 1

\* A handler's loop finds the stream exhausted and the handler returns or
\* throws, or the generator finishes.
Unwinds ==
  /\ eof' /\ nEv' = nEv
  /\ Len(frames') < Len(frames) \/ Terminated'

\* The functions of the decoder that read the stream in a loop.
LoopsOf(f) ==
  IF f = "hocr" THEN {"parseHocrPages", "handleChildren", "handleWord"}
  ELSE {"parseAltoPages", "handlePage", "handleBlock", "handleLine",
        "handleWord", "handleShape", "handleSourceImageInformation"}

\* The generator stands at the head of a loop that reads the stream: it has
\* a step to take, also at the end of the stream.
AtLoopHead == \E fn \in LoopsOf(fmt) : Running(fn)

\* C38: every turn of a loop of either decoder consumes one new event or
\* ends the loop at the end of the stream, and once the stream has ended,
\* well-nested or not, the page generator has finished or failed or has a
\* step to take, each of which leaves a handler: it terminates.
C38_Termination ==
  [][/\ ConsumesOne \/ Unwinds
     /\ (eof' /\ ~Terminated') => AtLoopHead']_vars

\* The generator has finished after a stream that ended inside an element,
\* unwinding more than one handler.
C38_Witness ==
  /\ eof /\ open # <<>> /\ status = "done"
  /\ Len(returns) >= 2
  /\ \A i \in 1..Len(returns) : returns[i].at = AtEof

----------------------------------------------------------------------------
(* Properties of the element stack *)

\* The objects whose children the handlers on the call stack are reading,
\* outermost handler first.
RECURSIVE BeingRead(_)
BeingRead(fs) ==
  IF fs = <<>> THEN <<>>
  ELSE (IF Head(fs).el # 0 THEN <<Head(fs).el>> ELSE <<>>)
         \o BeingRead(Tail(fs))

\* No two objects of the stack are of the same level.
OnePerLevel(stack) ==
  \A i, j \in 1..Len(stack) :
    elems[stack[i]].type = elems[stack[j]].type => i = j

\* C39: in both decoders the element stack is empty whenever a page is
\* yielded and when the generator has finished; while the decoder runs the
\* stack holds exactly the objects whose handlers are running, innermost
\* on top (each pushed once and popped once, by its handler), and no two
\* of one level.
C39_ElementStackDiscipline ==
  [][/\ Len(yielded') > Len(yielded) => elementStack' = <<>>
     /\ status' = "done" => elementStack' = <<>>
     /\ status' = "running" =>
          /\ elementStack' = BeingRead(frames')
          /\ OnePerLevel(elementStack)'
     /\ \/ elementStack' = elementStack
        \/ Front(elementStack') = elementStack
        \/ \E k \in 1..Len(elementStack) :
             elementStack' = SubSeq(elementStack, 1, Len(elementStack) - k)
        \/ status' = "failed"]_vars

\* The generator has finished, the stack empty, after a page with a word:
\* page, block or paragraph, line and word were pushed and popped.
C39_Witness ==
  /\ status = "done" /\ elementStack = <<>> /\ yielded # <<>>
  /\ \E w \in Ids : /\ elems[w].type = "word"
                    /\ elems[w].page = yielded[1].page
                    /\ ElemOf(parentOf[elems[w].sid]) # 0

----------------------------------------------------------------------------
(* Properties of the feature list *)

\* C40: in both decoders every feature flag occurs at most once in the
\* feature list of a page, also when objects of more than one level have a
\* polygon.
C40_FeaturesWithoutDuplicates ==
  \A p \in Ids :
    elems[p].type = "page" =>
      \A i, j \in 1..Len(elems[p].features) :
        elems[p].features[i] = elems[p].features[j] => i = j

====
